---------------------------- MODULE Spec2Model ----------------------------
(***************************************************************************)
(* Model of topic-trainer-ai: the pinia data store (categories, questions) *)
(* with its IndexedDB mirror, the library view's category and question     *)
(* handlers, the chat view's tool handlers, and the trainer view's session *)
(* and SM-2 scheduling.                                                    *)
(*                                                                         *)
(* Conventions                                                             *)
(*  - ids are integers; uuidv4() is a counter that never repeats an id, so  *)
(*    ids grow in the order of creation. The order of the uuid strings,    *)
(*    which is the key order of IndexedDB, is the variable uuidOrder.      *)
(*  - Null (0) is JavaScript's null / undefined parentId.                  *)
(*  - time is counted in days; Date.now() is the variable now.             *)
(*  - repetitionFactor is kept in hundredths (2.5 is 250), so the factor   *)
(*    arithmetic of updateSpacedRepetition is exact decimal arithmetic.    *)
(*  - external scores are integers; the evaluator's reply is not checked,  *)
(*    so they range a little below 0 and above 10.                         *)
(*  - a handler is one atomic step and its persistence call succeeds,      *)
(*    except in SpecApi, where a store call's database write may reject.   *)
(*  - NaN stands for every non-numeric value a reply can carry.            *)
(*  - the fields name, text, correctAnswer and difficulty are not          *)
(*    modelled: no handler reads them to decide anything.                  *)
(***************************************************************************)
EXTENDS Integers, Sequences, FiniteSets

\* ------------------------------------------------------------------ bounds
MaxCats == 3
MaxQuestions == 2
\* answers given in one run of the trainer specification
MaxAttempts == 3
\* the evaluator's scores range over -ScoreBelow .. ScoreMax + ScoreAbove
ScoreBelow == 1
ScoreAbove == 2
\* intervals of the question the trainer specification starts from
MaxInitInterval == 2
\* schedulings in one run from a fresh question
MaxRun == 10
\* questions in the store the session-order specification starts from
OrderQuestions == 3
\* their nextReviewDate ranges over the days 1..MaxDue
MaxDue == 3
\* categories in the store the session-filter specification starts from
FilterCats == 3
\* ids the callers of the store specification pass (1..StoreIds)
StoreIds == 2
\* length the arrays of the store specification grow to
MaxStoreLen == 2
\* attempts in the database the statistics specification starts from
StatAttempts == 3
\* attempts in the database the progress specification starts from
ProgressAttempts == 3

\* ------------------------------------------------------ program constants
\* "Give a score from 0 to 10"
ScoreMax == 10
\* the days of the period 'all'
AllDays == 365
\* .slice(-30): the points the progress chart shows at most
MaxPoints == 30

\* ------------------------------------------------------------- identifiers
Null == 0
CatIds == 1..MaxCats
QIds == 1..MaxQuestions
\* an id no uuidv4() call ever returned (an agent's made-up id)
BogusId == MaxCats + 1
BogusQId == MaxQuestions + 1
\* a tool argument the agent left out (JavaScript's undefined)
Undefined == -1
\* JavaScript's NaN: what `x / 2` and every later sum, product and Math.round
\* give once the evaluator's score is not a number; also stands for such a score
NaN == -999

VARIABLES
  categories,      \* dataStore.categories : Seq of [id, parentId]
  questions,       \* dataStore.questions  : Seq of Question records
  dbCategories,    \* IndexedDB object store 'categories' (keyPath id)
  dbQuestions,     \* IndexedDB object store 'questions'  (keyPath id)
  dbAttempts,      \* IndexedDB object store 'attempts'   (keyPath id)
  nextCatId,       \* next id uuidv4() hands to a category
  nextQId,         \* next id uuidv4() hands to a question
  nextAttemptId,   \* next id uuidv4() hands to an attempt
  now,             \* Date.now(), in days
  \* TrainerView.vue
  mode,                  \* 'setup' | 'training' | 'result'
  selectedCategories,    \* Set of category ids
  selectedTags,          \* Set of tags
  sessionQuestions,      \* Seq of Question records, copied at session start
  currentQuestionIndex,  \* 0-based, as in the code
  currentFeedback,       \* {} for null, or {[score |-> ...]} of the evaluated answer
  sessionResults,        \* Seq of the session's Attempt records
  quality,               \* submitAnswer's local `quality` of its last run
  \* history of a run of schedulings (not program state)
  reps,                  \* schedulings since the question was fresh
  prevInterval,          \* its interval before the last scheduling
  prevFactor,            \* its repetitionFactor before the last scheduling
  lastEval,              \* how the last evaluateAnswer call of submitAnswer ended:
                         \* "none" | "scored" | "fallback" | "thrown"
  storeFailed,           \* whether the promise of the last store call rejected
  \* the environment
  uuidOrder,             \* [cat, q]: the category ids and the question ids in
                         \* the ascending order of their uuid strings; read
                         \* by loadData only
  \* StatsView.vue
  attempts,              \* Seq of Attempt records, read when the view mounts
  statsIsLoading,        \* the view's isLoading: true until onMounted is through
  selectedPeriod,        \* '7' | '30' | 'all'
  \* startSession() of TrainerView.vue, run frame by frame
  startState,            \* "idle" | "running" | "returned" | "overflow"
  pending,               \* selected ids selectedCategories.forEach has yet to visit
  callStack,             \* frames of getDescendantIds: [parentId, todo], todo the
                         \* children that children.forEach has yet to visit
  expandedCategories,    \* the Set startSession fills
  \* submitAnswer() of TrainerView.vue, run await by await
  pendingUpdate,         \* the questions of the dataStore.updateQuestion calls
                         \* (not awaited) whose saveQuestion has not settled
  pendingAttempt,        \* {} or {attempt}: the awaited dbService.saveAttempt
  lastSubmit,            \* {} or {[rescheduled, attempt]}: what the last
                         \* submitAnswer set out to write (history)
  \* ChatView.vue
  isLoading,             \* the chat's isLoading
  abortController,       \* Null, or the id of the sendMessage call whose
                         \* AbortController the ref holds
  requests,              \* the sendMessage calls that have not returned:
                         \* [id, aborted, orphan, phase, left]
  nextRequestId          \* sendMessage calls so far, plus one

storeVars == <<categories, questions, dbCategories, dbQuestions, nextCatId, nextQId>>
trainerVars == <<mode, selectedCategories, selectedTags, sessionQuestions,
                 currentQuestionIndex, currentFeedback, sessionResults,
                 quality>>
statsVars == <<attempts, statsIsLoading, selectedPeriod>>
\* the refs of the views other than the trainer
expandVars == <<startState, pending, callStack, expandedCategories>>
submitVars == <<pendingUpdate, pendingAttempt, lastSubmit>>
chatVars == <<isLoading, abortController, requests, nextRequestId>>
viewVars == <<statsVars, expandVars, submitVars, chatVars>>
historyVars == <<reps, prevInterval, prevFactor, lastEval, storeFailed, uuidOrder,
                 viewVars>>
nonStoreVars == <<dbAttempts, nextAttemptId, now, trainerVars, historyVars>>
vars == <<storeVars, dbAttempts, nextAttemptId, now, trainerVars, historyVars>>

\* ------------------------------------------------------------ seq helpers
Range(s) == {s[i] : i \in 1..Len(s)}

\* Array.prototype.findIndex(x => x.id === id); 0 stands for -1
FindIndex(s, id) ==
  IF \E i \in 1..Len(s) : s[i].id = id
  THEN CHOOSE i \in 1..Len(s) : s[i].id = id /\ \A j \in 1..(i-1) : s[j].id # id
  ELSE 0

\* Array.prototype.filter(x => x.id !== id)
RECURSIVE FilterOut(_, _)
FilterOut(s, id) ==
  IF s = <<>> THEN <<>>
  ELSE IF Head(s).id = id THEN FilterOut(Tail(s), id)
       ELSE <<Head(s)>> \o FilterOut(Tail(s), id)

HasId(s, id) == \E i \in 1..Len(s) : s[i].id = id
IdsOf(s) == {s[i].id : i \in 1..Len(s)}
\* Array.prototype.find(x => x.id === id), used only where HasId holds
Find(s, id) == s[FindIndex(s, id)]

\* IDBObjectStore.put on a store with keyPath 'id': insert or overwrite
DbPut(table, rec) == {r \in table : r.id # rec.id} \cup {rec}
\* IDBObjectStore.delete(id)
DbDelete(table, id) == {r \in table : r.id # id}

\* ------------------------------------------------------------- the store
\* the memory half of each store function, after the awaited db call

\* categories.value.push(category)
AddCategoryMem(cats, category) == Append(cats, category)

\* const index = findIndex(...); if (index !== -1) categories.value[index] = category
UpdateCategoryMem(cats, category) ==
  LET index == FindIndex(cats, category.id)
  IN  IF index # 0 THEN [cats EXCEPT ![index] = category] ELSE cats

\* categories.value = categories.value.filter(c => c.id !== id)
RemoveCategoryMem(cats, id) == FilterOut(cats, id)

AddQuestionMem(qs, question) == Append(qs, question)

UpdateQuestionMem(qs, question) ==
  LET index == FindIndex(qs, question.id)
  IN  IF index # 0 THEN [qs EXCEPT ![index] = question] ELSE qs

RemoveQuestionMem(qs, id) == FilterOut(qs, id)

\* dataStore.addCategory(category)
StoreAddCategory(category) ==
  /\ dbCategories' = DbPut(dbCategories, category)
  /\ categories' = AddCategoryMem(categories, category)

\* dataStore.updateCategory(category)
StoreUpdateCategory(category) ==
  /\ dbCategories' = DbPut(dbCategories, category)
  /\ categories' = UpdateCategoryMem(categories, category)

\* dataStore.removeCategory(id)
StoreRemoveCategory(id) ==
  /\ dbCategories' = DbDelete(dbCategories, id)
  /\ categories' = RemoveCategoryMem(categories, id)

\* dataStore.addQuestion(question)
StoreAddQuestion(question) ==
  /\ dbQuestions' = DbPut(dbQuestions, question)
  /\ questions' = AddQuestionMem(questions, question)

\* dataStore.updateQuestion(question)
StoreUpdateQuestion(question) ==
  /\ dbQuestions' = DbPut(dbQuestions, question)
  /\ questions' = UpdateQuestionMem(questions, question)

\* dataStore.removeQuestion(id)
StoreRemoveQuestion(id) ==
  /\ dbQuestions' = DbDelete(dbQuestions, id)
  /\ questions' = RemoveQuestionMem(questions, id)

\* --------------------------------------------------------- category tree
\* categoriesTree: a category is a root unless its parentId is truthy and
\* names a category of the map
IsRoot(cats, c) == ~(c.parentId # Null /\ HasId(cats, c.parentId))
RootIds(cats) == {c.id : c \in {x \in Range(cats) : IsRoot(cats, x)}}

\* ids reachable from the set S through child links (S included)
RECURSIVE DownClosure(_, _)
DownClosure(cats, S) ==
  LET S2 == S \cup {c.id : c \in {x \in Range(cats) : x.parentId \in S}}
  IN  IF S2 = S THEN S ELSE DownClosure(cats, S2)

\* the nodes CategoryTree.vue renders: the roots and all below them
TreeIds(cats) == DownClosure(cats, RootIds(cats))

\* categoriesTree: the ids of the roots array, in the order of the pushes
TreeRoots(cats) ==
  LET Test(c) == IsRoot(cats, c)
      roots == SelectSeq(cats, Test)
  IN  [i \in 1..Len(roots) |-> roots[i].id]

\* categoriesTree: the ids of the children array of node id, in the order of
\* the pushes
TreeChildren(cats, id) ==
  LET Test(c) == ~IsRoot(cats, c) /\ c.parentId = id
      children == SelectSeq(cats, Test)
  IN  [i \in 1..Len(children) |-> children[i].id]

\* the proper descendants of id
Descendants(cats, id) ==
  DownClosure(cats, {c.id : c \in {x \in Range(cats) : x.parentId = id}})

\* ids some uuidv4() call has returned so far (live or deleted)
IssuedCatIds == 1..(nextCatId - 1)
IssuedQIds == 1..(nextQId - 1)

\* JavaScript's a || b on numbers: 0, undefined and NaN are falsy
JsOr(a, b) == IF a = 0 \/ a = Undefined \/ a = NaN THEN b ELSE a

\* the fresh scheduling fields of a new question
NewQuestion(id, categoryId, tags) ==
  [id |-> id, categoryId |-> categoryId, tags |-> tags,
   nextReviewDate |-> now, interval |-> 0, repetitionFactor |-> 250]

\* a question left by earlier sessions, due on day `due`
StoredQuestion(id, categoryId, tags, due) ==
  [id |-> id, categoryId |-> categoryId, tags |-> tags,
   nextReviewDate |-> due, interval |-> 1, repetitionFactor |-> 250]

\* ------------------------------------------------- LibraryView handlers
\* addCategory(parentId): the header's + button (null) or a node's + button
LibAddCategory(parentId) ==
  /\ nextCatId <= MaxCats
  /\ parentId \in TreeIds(categories) \cup {Null}
  /\ StoreAddCategory([id |-> nextCatId, parentId |-> parentId])
  /\ nextCatId' = nextCatId + 1
  /\ UNCHANGED <<questions, dbQuestions, nextQId>>
  /\ UNCHANGED nonStoreVars

\* editCategory(node): rename; the parentId of the node is written back
LibEditCategory(id) ==
  /\ id \in TreeIds(categories)
  /\ StoreUpdateCategory(Find(categories, id))
  /\ UNCHANGED <<questions, dbQuestions, nextCatId, nextQId>>
  /\ UNCHANGED nonStoreVars

\* deleteCategory(id), confirmed
LibDeleteCategory(id) ==
  /\ id \in TreeIds(categories)
  /\ StoreRemoveCategory(id)
  /\ UNCHANGED <<questions, dbQuestions, nextCatId, nextQId>>
  /\ UNCHANGED nonStoreVars

\* onDrop(event, targetNode) with a dragged category node
OnDropCategory(draggedId, targetId) ==
  /\ draggedId \in TreeIds(categories)
  /\ targetId \in TreeIds(categories)
  /\ IF draggedId = targetId
     THEN UNCHANGED <<categories, dbCategories>>
     ELSE StoreUpdateCategory([Find(categories, draggedId) EXCEPT !.parentId = targetId])
  /\ UNCHANGED <<questions, dbQuestions, nextCatId, nextQId>>
  /\ UNCHANGED nonStoreVars

\* onDropToRoot(event) with a dragged category node
OnDropToRoot(draggedId) ==
  /\ draggedId \in TreeIds(categories)
  /\ StoreUpdateCategory([Find(categories, draggedId) EXCEPT !.parentId = Null])
  /\ UNCHANGED <<questions, dbQuestions, nextCatId, nextQId>>
  /\ UNCHANGED nonStoreVars

\* the questions the library lists: those of the selected (rendered) category
Listed(qId) ==
  /\ HasId(questions, qId)
  /\ Find(questions, qId).categoryId \in TreeIds(categories)

\* onDrop(event, targetNode) with a dragged question
OnDropQuestion(qId, targetId) ==
  /\ Listed(qId)
  /\ targetId \in TreeIds(categories)
  /\ IF Find(questions, qId).categoryId # targetId
     THEN StoreUpdateQuestion([Find(questions, qId) EXCEPT !.categoryId = targetId])
     ELSE UNCHANGED <<questions, dbQuestions>>
  /\ UNCHANGED <<categories, dbCategories, nextCatId, nextQId>>
  /\ UNCHANGED nonStoreVars

\* QuestionEditor.save + saveQuestion for a new question of the selected category
LibSaveNewQuestion(categoryId, tags) ==
  /\ nextQId <= MaxQuestions
  /\ categoryId \in TreeIds(categories)
  /\ StoreAddQuestion(NewQuestion(nextQId, categoryId, tags))
  /\ nextQId' = nextQId + 1
  /\ UNCHANGED <<categories, dbCategories, nextCatId>>
  /\ UNCHANGED nonStoreVars

\* QuestionEditor.save + saveQuestion for an edited question: the form keeps
\* the scheduling fields, `||` replaces the falsy ones by the defaults
LibSaveEditedQuestion(qId, tags) ==
  /\ Listed(qId)
  /\ LET q == Find(questions, qId)
     IN  StoreUpdateQuestion(
           [id |-> q.id, categoryId |-> q.categoryId, tags |-> tags,
            nextReviewDate |-> JsOr(q.nextReviewDate, now),
            interval |-> JsOr(q.interval, 0),
            repetitionFactor |-> JsOr(q.repetitionFactor, 250)])
  /\ UNCHANGED <<categories, dbCategories, nextCatId, nextQId>>
  /\ UNCHANGED nonStoreVars

\* a faulty variant of LibDeleteQuestion: the attempts of the question are
\* deleted with it
LibDeleteQuestionCascade(qId) ==
  /\ Listed(qId)
  /\ StoreRemoveQuestion(qId)
  /\ dbAttempts' = {a \in dbAttempts : a.questionId # qId}
  /\ UNCHANGED <<categories, dbCategories, nextCatId, nextQId, nextAttemptId,
                 now, trainerVars, historyVars>>

\* deleteQuestion(id), confirmed
LibDeleteQuestion(qId) ==
  /\ Listed(qId)
  /\ StoreRemoveQuestion(qId)
  /\ UNCHANGED <<categories, dbCategories, nextCatId, nextQId>>
  /\ UNCHANGED nonStoreVars

\* ---------------------------------------- ChatView handleToolCall(name, args)
\* create_category: parentId: args.parentId || null
ToolCreateCategory(parentArg) ==
  /\ nextCatId <= MaxCats
  /\ parentArg \in IssuedCatIds \cup {BogusId, Undefined}
  /\ StoreAddCategory([id |-> nextCatId, parentId |-> JsOr(parentArg, Null)])
  /\ nextCatId' = nextCatId + 1
  /\ UNCHANGED <<questions, dbQuestions, nextQId>>
  /\ UNCHANGED nonStoreVars

\* create_question: categoryId: args.categoryId
ToolCreateQuestion(categoryArg, tags) ==
  /\ nextQId <= MaxQuestions
  /\ categoryArg \in IssuedCatIds \cup {BogusId}
  /\ StoreAddQuestion(NewQuestion(nextQId, categoryArg, tags))
  /\ nextQId' = nextQId + 1
  /\ UNCHANGED <<categories, dbCategories, nextCatId>>
  /\ UNCHANGED nonStoreVars

\* update_category: not found -> { error }; otherwise
\* parentId: args.parentId !== undefined ? args.parentId : cat.parentId
ToolUpdateCategory(id, parentArg) ==
  /\ id \in IssuedCatIds \cup {BogusId}
  /\ parentArg \in IssuedCatIds \cup {BogusId, Null, Undefined}
  /\ IF ~HasId(categories, id)
     THEN UNCHANGED <<categories, dbCategories>>
     ELSE LET cat == Find(categories, id)
          IN  StoreUpdateCategory(
                [cat EXCEPT !.parentId =
                   IF parentArg # Undefined THEN parentArg ELSE cat.parentId])
  /\ UNCHANGED <<questions, dbQuestions, nextCatId, nextQId>>
  /\ UNCHANGED nonStoreVars

\* delete_category: dataStore.removeCategory(args.id), whatever the id
ToolDeleteCategory(id) ==
  /\ id \in IssuedCatIds \cup {BogusId}
  /\ StoreRemoveCategory(id)
  /\ UNCHANGED <<questions, dbQuestions, nextCatId, nextQId>>
  /\ UNCHANGED nonStoreVars

\* a faulty variant of ToolUpdateQuestion: the question is written back with
\* the scheduling fields of a new question
ToolUpdateQuestionFresh(id, categoryArg) ==
  /\ id \in IssuedQIds \cup {BogusQId}
  /\ categoryArg \in IssuedCatIds \cup {BogusId, Undefined}
  /\ IF ~HasId(questions, id)
     THEN UNCHANGED <<questions, dbQuestions>>
     ELSE LET q == Find(questions, id)
          IN  StoreUpdateQuestion(
                NewQuestion(q.id, JsOr(categoryArg, q.categoryId), q.tags))
  /\ UNCHANGED <<categories, dbCategories, nextCatId, nextQId>>
  /\ UNCHANGED nonStoreVars

\* update_question: not found -> { error }; otherwise
\* tags: args.tags || q.tags, categoryId: args.categoryId || q.categoryId
ToolUpdateQuestion(id, categoryArg) ==
  /\ id \in IssuedQIds \cup {BogusQId}
  /\ categoryArg \in IssuedCatIds \cup {BogusId, Undefined}
  /\ IF ~HasId(questions, id)
     THEN UNCHANGED <<questions, dbQuestions>>
     ELSE LET q == Find(questions, id)
          IN  StoreUpdateQuestion([q EXCEPT !.categoryId = JsOr(categoryArg, q.categoryId)])
  /\ UNCHANGED <<categories, dbCategories, nextCatId, nextQId>>
  /\ UNCHANGED nonStoreVars

\* delete_question: dataStore.removeQuestion(args.id), whatever the id
ToolDeleteQuestion(id) ==
  /\ id \in IssuedQIds \cup {BogusQId}
  /\ StoreRemoveQuestion(id)
  /\ UNCHANGED <<categories, dbCategories, nextCatId, nextQId>>
  /\ UNCHANGED nonStoreVars

\* what handleToolCall returns to the agent: "error" for an { error } object,
\* "success" for a { success: true, ... } object
ReturnOfCreateCategory(parentArg) == "success"
ReturnOfCreateQuestion(categoryArg) == "success"
ReturnOfUpdateCategory(id, parentArg) ==
  IF ~HasId(categories, id) THEN "error" ELSE "success"
ReturnOfDeleteCategory(id) == "success"
ReturnOfUpdateQuestion(id, categoryArg) ==
  IF ~HasId(questions, id) THEN "error" ELSE "success"
ReturnOfDeleteQuestion(id) == "success"

\* ------------------------------------------------------ the content graph
\* tags typed into the editor or sent by the agent
NewTags == {{}}

Next ==
  \/ \E p \in CatIds \cup {Null} : LibAddCategory(p)
  \/ \E id \in CatIds : LibEditCategory(id)
  \/ \E id \in CatIds : LibDeleteCategory(id)
  \/ \E d \in CatIds, t \in CatIds : OnDropCategory(d, t)
  \/ \E d \in CatIds : OnDropToRoot(d)
  \/ \E q \in QIds, t \in CatIds : OnDropQuestion(q, t)
  \/ \E c \in CatIds, tg \in NewTags : LibSaveNewQuestion(c, tg)
  \/ \E q \in QIds, tg \in NewTags : LibSaveEditedQuestion(q, tg)
  \/ \E q \in QIds : LibDeleteQuestion(q)
  \/ \E p \in CatIds \cup {BogusId, Undefined} : ToolCreateCategory(p)
  \/ \E c \in CatIds \cup {BogusId}, tg \in NewTags : ToolCreateQuestion(c, tg)
  \/ \E id \in CatIds \cup {BogusId}, p \in CatIds \cup {BogusId, Null, Undefined} :
        ToolUpdateCategory(id, p)
  \/ \E id \in CatIds \cup {BogusId} : ToolDeleteCategory(id)
  \/ \E q \in QIds \cup {BogusQId}, c \in CatIds \cup {BogusId, Undefined} :
        ToolUpdateQuestion(q, c)
  \/ \E q \in QIds \cup {BogusQId} : ToolDeleteQuestion(q)

\* the state after construction: empty store, empty database, trainer in setup
InitStore ==
  /\ categories = <<>> /\ questions = <<>>
  /\ dbCategories = {} /\ dbQuestions = {} /\ dbAttempts = {}
  /\ nextCatId = 1 /\ nextQId = 1 /\ nextAttemptId = 1
  /\ now = 1

InitTrainer ==
  /\ mode = "setup"
  /\ selectedCategories = {} /\ selectedTags = {}
  /\ sessionQuestions = <<>>
  /\ currentQuestionIndex = 0
  /\ currentFeedback = {}
  /\ sessionResults = <<>>
  /\ quality = Null
  /\ reps = 0 /\ prevInterval = 0 /\ prevFactor = 0
  /\ lastEval = "none" /\ storeFailed = FALSE

\* the uuids in the order they are issued
IssueOrder == [cat |-> [i \in CatIds |-> i], q |-> [i \in QIds |-> i]]

\* the stats view's refs as its setup creates them: ref([]), ref(true), ref('30')
StatsUnmounted == attempts = <<>> /\ statsIsLoading = TRUE /\ selectedPeriod = "30"
\* the refs of the views other than the trainer, none of them mounted
\* no call of startSession is running
NotStarting ==
  /\ startState = "idle"
  /\ pending = {} /\ callStack = <<>> /\ expandedCategories = {}
\* no write of submitAnswer is in flight
NotSubmitting == pendingUpdate = {} /\ pendingAttempt = {} /\ lastSubmit = {}
\* the chat view's refs as its setup creates them, and no call in flight
ChatIdle ==
  /\ isLoading = FALSE /\ abortController = Null
  /\ requests = {} /\ nextRequestId = 1
InitViews == StatsUnmounted /\ NotStarting /\ NotSubmitting /\ ChatIdle

Init == InitStore /\ InitTrainer /\ uuidOrder = IssueOrder /\ InitViews

Spec == Init /\ [][Next]_vars

\* ============================================================ TrainerView
\* Math.round(n / d) for d > 0: the nearest integer, halves towards +infinity
JsRound(n, d) == (2 * n + d) \div (2 * d)

\* a faulty variant of GetDescendantIds: the children only
GetDescendantIdsShallow(cats, parentId) ==
  {c.id : c \in {x \in Range(cats) : x.parentId = parentId}}

\* getDescendantIds(parentId): the children's ids, then each child's descendants
RECURSIVE GetDescendantIds(_, _)
GetDescendantIds(cats, parentId) ==
  LET children == {c \in Range(cats) : c.parentId = parentId}
  IN  {c.id : c \in children}
        \cup UNION {GetDescendantIds(cats, c.id) : c \in children}

\* expandedCategories
ExpandedCategories(cats, selected) ==
  selected \cup UNION {GetDescendantIds(cats, catId) : catId \in selected}

\* a faulty variant of IsCandidate: every selected tag asked for, not just one
IsCandidateAllTags(q, cats, selCats, selTags) ==
  /\ (selCats # {} => q.categoryId \in ExpandedCategories(cats, selCats))
  /\ selTags \subseteq q.tags

\* the filter callback of startSession
IsCandidate(q, cats, selCats, selTags) ==
  /\ (selCats # {} => q.categoryId \in ExpandedCategories(cats, selCats))
  /\ ~(selTags # {} /\ q.tags \cap selTags = {})

\* Array.prototype.filter
RECURSIVE FilterCandidates(_, _, _, _)
FilterCandidates(qs, cats, selCats, selTags) ==
  IF qs = <<>> THEN <<>>
  ELSE (IF IsCandidate(Head(qs), cats, selCats, selTags) THEN <<Head(qs)>> ELSE <<>>)
         \o FilterCandidates(Tail(qs), cats, selCats, selTags)

\* the comparator's verdict "a is not after b": a - b <= 0, and a NaN
\* difference counts as 0 (SortCompare)
NotAfter(a, b) == a = NaN \/ b = NaN \/ a <= b

\* a faulty variant of InsertByDue: an unstable sort, which lets a later
\* question overtake an earlier one of the same nextReviewDate
RECURSIVE InsertByDueUnstable(_, _)
InsertByDueUnstable(sorted, q) ==
  IF sorted = <<>> THEN <<q>>
  ELSE IF Head(sorted).nextReviewDate < q.nextReviewDate
       THEN <<Head(sorted)>> \o InsertByDueUnstable(Tail(sorted), q)
       ELSE <<q>> \o sorted

\* candidates.sort((a, b) => a.nextReviewDate - b.nextReviewDate): a stable sort
RECURSIVE InsertByDue(_, _)
InsertByDue(sorted, q) ==
  IF sorted = <<>> THEN <<q>>
  ELSE IF NotAfter(Head(sorted).nextReviewDate, q.nextReviewDate)
       THEN <<Head(sorted)>> \o InsertByDue(Tail(sorted), q)
       ELSE <<q>> \o sorted

RECURSIVE SortByDue(_)
SortByDue(qs) ==
  IF qs = <<>> THEN <<>>
  ELSE InsertByDue(SortByDue(SubSeq(qs, 1, Len(qs) - 1)), qs[Len(qs)])

\* startSession(), from the setup screen
StartSession ==
  /\ mode = "setup"
  /\ LET candidates == SortByDue(FilterCandidates(questions, categories,
                                                   selectedCategories, selectedTags))
     IN  /\ sessionQuestions' = candidates
         /\ IF Len(candidates) = 0
            THEN UNCHANGED <<mode, currentQuestionIndex, sessionResults, currentFeedback>>
            ELSE /\ currentQuestionIndex' = 0
                 /\ sessionResults' = <<>>
                 /\ mode' = "training"
                 /\ currentFeedback' = {}
  /\ UNCHANGED <<storeVars, dbAttempts, nextAttemptId, now, selectedCategories,
                 selectedTags, quality, historyVars>>

\* allTags: the tags some question carries
AllTags(qs) == UNION {q.tags : q \in Range(qs)}

\* toggleCategory(id), from the setup screen's list of dataStore.categories
ToggleCategory(id) ==
  /\ mode = "setup"
  /\ HasId(categories, id)
  /\ selectedCategories' = IF id \in selectedCategories
                            THEN selectedCategories \ {id}
                            ELSE selectedCategories \cup {id}
  /\ UNCHANGED <<storeVars, dbAttempts, nextAttemptId, now, mode, selectedTags,
                 sessionQuestions, currentQuestionIndex, currentFeedback,
                 sessionResults, quality, historyVars>>

\* toggleTag(tag), from the setup screen's list of allTags
ToggleTag(tag) ==
  /\ mode = "setup"
  /\ tag \in AllTags(questions)
  /\ selectedTags' = IF tag \in selectedTags
                      THEN selectedTags \ {tag}
                      ELSE selectedTags \cup {tag}
  /\ UNCHANGED <<storeVars, dbAttempts, nextAttemptId, now, mode,
                 selectedCategories, sessionQuestions, currentQuestionIndex,
                 currentFeedback, sessionResults, quality, historyVars>>

\* const quality = Math.round(result.score / 2)
QualityOf(score) == IF score = NaN THEN NaN ELSE JsRound(score, 2)

\* JavaScript's a < b on numbers: false when either is NaN
JsLess(a, b) == a # NaN /\ b # NaN /\ a < b

\* faulty variants of NewInterval (what a slip in the code would compute)
\* the restart taken only below quality 2
NewIntervalLateReset(question, q) ==
  IF q < 2 THEN 1
  ELSE IF question.interval = 0 THEN 1
  ELSE IF question.interval = 1 THEN 6
  ELSE JsRound(question.interval * question.repetitionFactor, 100)

\* Math.floor in place of Math.round
NewIntervalTruncated(question, q) ==
  IF q < 3 THEN 1
  ELSE IF question.interval = 0 THEN 1
  ELSE IF question.interval = 1 THEN 6
  ELSE (question.interval * question.repetitionFactor) \div 100

\* the second repetition's fixed interval of 6 left out
NewIntervalSkipsSix(question, q) ==
  IF q < 3 THEN 1
  ELSE IF question.interval = 0 THEN 1
  ELSE JsRound(question.interval * question.repetitionFactor, 100)

\* updateSpacedRepetition: the new interval
NewInterval(question, q) ==
  IF JsLess(q, 3) THEN 1
  ELSE IF question.interval = 0 THEN 1
  ELSE IF question.interval = 1 THEN 6
  ELSE IF question.interval = NaN \/ question.repetitionFactor = NaN THEN NaN
  ELSE JsRound(question.interval * question.repetitionFactor, 100)

\* faulty variants of NewFactor (what a slip in the code would compute)
\* the 1.3 floor left out
NewFactorNoFloor(question, q) ==
  IF q < 3 THEN question.repetitionFactor
  ELSE question.repetitionFactor + (10 - (5 - q) * (8 + (5 - q) * 2))

\* the E-factor updated on a failed answer too, as in textbook SM-2
NewFactorAlwaysUpdated(question, q) ==
  LET f == question.repetitionFactor + (10 - (5 - q) * (8 + (5 - q) * 2))
  IN  IF f < 130 THEN 130 ELSE f

\* updateSpacedRepetition: the new E-factor, in hundredths
\* EF' = EF + (0.1 - (5 - q) * (0.08 + (5 - q) * 0.02)); if (EF' < 1.3) EF' = 1.3
NewFactor(question, q) ==
  IF JsLess(q, 3) THEN question.repetitionFactor
  ELSE IF q = NaN \/ question.repetitionFactor = NaN THEN NaN
  ELSE LET f == question.repetitionFactor + (10 - (5 - q) * (8 + (5 - q) * 2))
       IN  IF f < 130 THEN 130 ELSE f

\* updateSpacedRepetition: the question handed to dataStore.updateQuestion
Rescheduled(question, q) ==
  [question EXCEPT !.interval = NewInterval(question, q),
                   !.repetitionFactor = NewFactor(question, q),
                   !.nextReviewDate = IF NewInterval(question, q) = NaN THEN NaN
                                      ELSE now + NewInterval(question, q)]

\* submitAnswer() once aiService.evaluateAnswer has resolved with
\* result.score = score; outcome tells how evaluateAnswer got to that result
Evaluated(score, outcome) ==
  /\ mode = "training"
  /\ currentFeedback = {}
  /\ currentQuestionIndex < Len(sessionQuestions)
  /\ Cardinality(dbAttempts) < MaxAttempts
  /\ LET question == sessionQuestions[currentQuestionIndex + 1]
         q == QualityOf(score)
         attempt == [id |-> nextAttemptId, questionId |-> question.id,
                     date |-> now, aiScore |-> score]
     IN  /\ currentFeedback' = {[score |-> score]}
         /\ quality' = q
         /\ StoreUpdateQuestion(Rescheduled(question, q))
         /\ dbAttempts' = DbPut(dbAttempts, attempt)
         /\ sessionResults' = Append(sessionResults, attempt)
         /\ nextAttemptId' = nextAttemptId + 1
  /\ lastEval' = outcome
  /\ UNCHANGED <<categories, dbCategories, nextCatId, nextQId, now, mode,
                 selectedCategories, selectedTags, sessionQuestions,
                 currentQuestionIndex, reps, prevInterval, prevFactor,
                 storeFailed, uuidOrder, viewVars>>

\* submitAnswer() when the evaluator's reply is JSON: return JSON.parse(content)
SubmitAnswer(score) == Evaluated(score, "scored")

\* submitAnswer() when `JSON.parse(data.choices[0].message.content)` throws
\* inside evaluateAnswer's try: an error response whose JSON body has no
\* choices, or a reply that is not JSON. evaluateAnswer then returns
\* { score: 0, feedback: 'Error parsing AI response' }
SubmitAnswerFallback == Evaluated(0, "fallback")

\* submitAnswer() when evaluateAnswer rejects (fetch fails or the body of the
\* response is not JSON): the catch block only reports the error
SubmitAnswerThrows ==
  /\ mode = "training"
  /\ currentFeedback = {}
  /\ currentQuestionIndex < Len(sessionQuestions)
  /\ lastEval' = "thrown"
  /\ UNCHANGED <<storeVars, dbAttempts, nextAttemptId, now, trainerVars,
                 reps, prevInterval, prevFactor, storeFailed, uuidOrder, viewVars>>

\* nextQuestion(), the button shown once the feedback is there
NextQuestion ==
  /\ mode = "training"
  /\ currentFeedback # {}
  /\ IF currentQuestionIndex < Len(sessionQuestions) - 1
     THEN /\ currentQuestionIndex' = currentQuestionIndex + 1
          /\ currentFeedback' = {}
          /\ UNCHANGED mode
     ELSE /\ mode' = "result"
          /\ UNCHANGED <<currentQuestionIndex, currentFeedback>>
  /\ UNCHANGED <<storeVars, dbAttempts, nextAttemptId, now, selectedCategories,
                 selectedTags, sessionQuestions, sessionResults, quality, historyVars>>

\* the result screen's button: mode = 'setup'
NewTraining ==
  /\ mode = "result"
  /\ mode' = "setup"
  /\ UNCHANGED <<storeVars, dbAttempts, nextAttemptId, now, selectedCategories,
                 selectedTags, sessionQuestions, currentQuestionIndex,
                 currentFeedback, sessionResults, quality, historyVars>>

\* the scores the evaluator may return: JSON.parse of the model's reply, unchecked
Scores == (0 - ScoreBelow)..(ScoreMax + ScoreAbove)

\* the trainer opened on a database that holds one category and one question,
\* fresh or left by earlier sessions or an import
InitSched ==
  /\ \E i \in 0..MaxInitInterval, f \in {130, 138, 250} :
       LET cat == [id |-> 1, parentId |-> Null]
           q == [id |-> 1, categoryId |-> 1, tags |-> {},
                 nextReviewDate |-> 1 + i, interval |-> i, repetitionFactor |-> f]
       IN  /\ categories = <<cat>> /\ dbCategories = {cat}
           /\ questions = <<q>> /\ dbQuestions = {q}
  /\ dbAttempts = {}
  /\ nextCatId = 2 /\ nextQId = 2 /\ nextAttemptId = 1
  /\ now = 1
  /\ mode = "setup"
  /\ selectedCategories = {} /\ selectedTags = {}
  /\ sessionQuestions = <<>>
  /\ currentQuestionIndex = 0
  /\ currentFeedback = {}
  /\ sessionResults = <<>>
  /\ quality = Null
  /\ reps = 0 /\ prevInterval = 0 /\ prevFactor = 0
  /\ lastEval = "none" /\ storeFailed = FALSE
  /\ uuidOrder = IssueOrder
  /\ InitViews

NextSched ==
  \/ StartSession
  \/ \E score \in Scores : SubmitAnswer(score)
  \/ NextQuestion
  \/ NewTraining

SpecSched == InitSched /\ [][NextSched]_vars

\* ------------------------------------------- a run of the scheduler alone
\* updateSpacedRepetition(question, quality) on the stored question, with a
\* quality of SM-2's passing range
ScheduleStep(q) ==
  /\ reps < MaxRun
  /\ LET question == Find(questions, 1)
     IN  /\ StoreUpdateQuestion(Rescheduled(question, q))
         /\ prevInterval' = question.interval
         /\ prevFactor' = question.repetitionFactor
  /\ quality' = q
  /\ reps' = reps + 1
  /\ UNCHANGED <<categories, dbCategories, nextCatId, nextQId, dbAttempts,
                 nextAttemptId, now, mode, selectedCategories, selectedTags,
                 sessionQuestions, currentQuestionIndex, currentFeedback,
                 sessionResults, lastEval, storeFailed, uuidOrder, viewVars>>

\* one category and one question as QuestionEditor.save creates it
InitRun ==
  /\ now = 1
  /\ LET cat == [id |-> 1, parentId |-> Null]
         q == NewQuestion(1, 1, {})
     IN  /\ categories = <<cat>> /\ dbCategories = {cat}
         /\ questions = <<q>> /\ dbQuestions = {q}
  /\ dbAttempts = {}
  /\ nextCatId = 2 /\ nextQId = 2 /\ nextAttemptId = 1
  /\ InitTrainer
  /\ uuidOrder = IssueOrder
  /\ InitViews

NextRun == \E q \in 3..5 : ScheduleStep(q)

SpecRun == InitRun /\ [][NextRun]_vars

\* --------------------------- the trainer with every outcome of the evaluator
\* result.score of a JSON reply: a number, or anything that is not one
EvalScores == Scores \cup {NaN}

\* the trainer view's refs as they are when the view is mounted
TrainerFresh ==
  /\ mode = "setup"
  /\ selectedCategories = {} /\ selectedTags = {}
  /\ sessionQuestions = <<>>
  /\ currentQuestionIndex = 0
  /\ currentFeedback = {}
  /\ sessionResults = <<>>

\* router navigation away from the trainer and back: the view and its refs
\* are created anew (the router keeps no view alive)
RemountTrainer ==
  /\ ~TrainerFresh
  /\ mode' = "setup"
  /\ selectedCategories' = {} /\ selectedTags' = {}
  /\ sessionQuestions' = <<>>
  /\ currentQuestionIndex' = 0
  /\ currentFeedback' = {}
  /\ sessionResults' = <<>>
  /\ UNCHANGED <<storeVars, dbAttempts, nextAttemptId, now, quality, historyVars>>

\* the library's and the chat's question handlers, which run while their view
\* is mounted in place of the trainer
AwaySaveNewQuestion(tags) == TrainerFresh /\ LibSaveNewQuestion(1, tags)
AwaySaveEditedQuestion(qId, tags) == TrainerFresh /\ LibSaveEditedQuestion(qId, tags)
AwayToolCreateQuestion(tags) == TrainerFresh /\ ToolCreateQuestion(1, tags)
AwayToolUpdateQuestion(qId, categoryArg) ==
  TrainerFresh /\ ToolUpdateQuestion(qId, categoryArg)

\* one category in the store, no question yet
InitEval ==
  /\ now = 1
  /\ LET cat == [id |-> 1, parentId |-> Null]
     IN  categories = <<cat>> /\ dbCategories = {cat}
  /\ questions = <<>> /\ dbQuestions = {}
  /\ dbAttempts = {}
  /\ nextCatId = 2 /\ nextQId = 1 /\ nextAttemptId = 1
  /\ InitTrainer
  /\ uuidOrder = IssueOrder
  /\ InitViews

NextEval ==
  \/ \E tg \in NewTags : AwaySaveNewQuestion(tg)
  \/ \E q \in QIds, tg \in NewTags : AwaySaveEditedQuestion(q, tg)
  \/ \E tg \in NewTags : AwayToolCreateQuestion(tg)
  \/ \E q \in QIds \cup {BogusQId}, c \in {1, BogusId, Undefined} :
        AwayToolUpdateQuestion(q, c)
  \/ StartSession
  \/ \E score \in EvalScores : SubmitAnswer(score)
  \/ SubmitAnswerFallback
  \/ SubmitAnswerThrows
  \/ NextQuestion
  \/ NewTraining
  \/ RemountTrainer

SpecEval == InitEval /\ [][NextEval]_vars

\* ----------------------------------------------- the store's six functions
\* a faulty variant of AfterAwait: memory written whatever the persistence
\* call did (an optimistic update that is not rolled back)
AfterAwaitOptimistic(ok, before, after) == after

\* the statement that follows `await dbService...` runs only if the promise
\* fulfilled: a rejection leaves the function at the await
AfterAwait(ok, before, after) == IF ok THEN after ELSE before

\* dataStore.addCategory(category); ok: dbService.saveCategory fulfils
ApiAddCategory(category, ok) ==
  /\ Len(categories) < MaxStoreLen
  /\ dbCategories' = IF ok THEN DbPut(dbCategories, category) ELSE dbCategories
  /\ categories' = AfterAwait(ok, categories, AddCategoryMem(categories, category))
  /\ storeFailed' = ~ok
  /\ UNCHANGED <<questions, dbQuestions, nextCatId, nextQId, dbAttempts,
                 nextAttemptId, now, trainerVars, reps, prevInterval,
                 prevFactor, lastEval, uuidOrder, viewVars>>

\* dataStore.updateCategory(category)
ApiUpdateCategory(category, ok) ==
  /\ dbCategories' = IF ok THEN DbPut(dbCategories, category) ELSE dbCategories
  /\ categories' = AfterAwait(ok, categories, UpdateCategoryMem(categories, category))
  /\ storeFailed' = ~ok
  /\ UNCHANGED <<questions, dbQuestions, nextCatId, nextQId, dbAttempts,
                 nextAttemptId, now, trainerVars, reps, prevInterval,
                 prevFactor, lastEval, uuidOrder, viewVars>>

\* dataStore.removeCategory(id); ok: dbService.deleteCategory fulfils
ApiRemoveCategory(id, ok) ==
  /\ dbCategories' = IF ok THEN DbDelete(dbCategories, id) ELSE dbCategories
  /\ categories' = AfterAwait(ok, categories, RemoveCategoryMem(categories, id))
  /\ storeFailed' = ~ok
  /\ UNCHANGED <<questions, dbQuestions, nextCatId, nextQId, dbAttempts,
                 nextAttemptId, now, trainerVars, reps, prevInterval,
                 prevFactor, lastEval, uuidOrder, viewVars>>

\* dataStore.addQuestion(question)
ApiAddQuestion(question, ok) ==
  /\ Len(questions) < MaxStoreLen
  /\ dbQuestions' = IF ok THEN DbPut(dbQuestions, question) ELSE dbQuestions
  /\ questions' = AfterAwait(ok, questions, AddQuestionMem(questions, question))
  /\ storeFailed' = ~ok
  /\ UNCHANGED <<categories, dbCategories, nextCatId, nextQId, dbAttempts,
                 nextAttemptId, now, trainerVars, reps, prevInterval,
                 prevFactor, lastEval, uuidOrder, viewVars>>

\* dataStore.updateQuestion(question)
ApiUpdateQuestion(question, ok) ==
  /\ dbQuestions' = IF ok THEN DbPut(dbQuestions, question) ELSE dbQuestions
  /\ questions' = AfterAwait(ok, questions, UpdateQuestionMem(questions, question))
  /\ storeFailed' = ~ok
  /\ UNCHANGED <<categories, dbCategories, nextCatId, nextQId, dbAttempts,
                 nextAttemptId, now, trainerVars, reps, prevInterval,
                 prevFactor, lastEval, uuidOrder, viewVars>>

\* dataStore.removeQuestion(id)
ApiRemoveQuestion(id, ok) ==
  /\ dbQuestions' = IF ok THEN DbDelete(dbQuestions, id) ELSE dbQuestions
  /\ questions' = AfterAwait(ok, questions, RemoveQuestionMem(questions, id))
  /\ storeFailed' = ~ok
  /\ UNCHANGED <<categories, dbCategories, nextCatId, nextQId, dbAttempts,
                 nextAttemptId, now, trainerVars, reps, prevInterval,
                 prevFactor, lastEval, uuidOrder, viewVars>>

\* the records the callers pass: a category at the root or under a parent, a
\* question
CategoryArgs == {[id |-> i, parentId |-> p] : i \in 1..StoreIds, p \in {Null, BogusId}}
QuestionArgs == {StoredQuestion(i, 1, {}, 1) : i \in 1..StoreIds}

\* the store after loadData() of an empty database
InitApi == InitStore /\ InitTrainer /\ uuidOrder = IssueOrder /\ InitViews

NextApi ==
  \/ \E c \in CategoryArgs, ok \in BOOLEAN : ApiAddCategory(c, ok)
  \/ \E c \in CategoryArgs, ok \in BOOLEAN : ApiUpdateCategory(c, ok)
  \/ \E id \in 1..StoreIds, ok \in BOOLEAN : ApiRemoveCategory(id, ok)
  \/ \E q \in QuestionArgs, ok \in BOOLEAN : ApiAddQuestion(q, ok)
  \/ \E q \in QuestionArgs, ok \in BOOLEAN : ApiUpdateQuestion(q, ok)
  \/ \E id \in 1..StoreIds, ok \in BOOLEAN : ApiRemoveQuestion(id, ok)

SpecApi == InitApi /\ [][NextApi]_vars

\* ------------------------------------------------------- the attempt log
\* the removals of the library and of the chat tools, which run while their
\* view is mounted in place of the trainer
AwayDeleteQuestion(qId) == TrainerFresh /\ LibDeleteQuestion(qId)
AwayDeleteCategory(id) == TrainerFresh /\ LibDeleteCategory(id)
AwayToolDeleteQuestion(qId) == TrainerFresh /\ ToolDeleteQuestion(qId)
AwayToolDeleteCategory(id) == TrainerFresh /\ ToolDeleteCategory(id)

\* the scores of the attempt-log specification: a failed, a passed and a
\* perfect answer
LogScores == {0, 7, ScoreMax}

NextLog ==
  \/ StartSession
  \/ \E score \in LogScores : SubmitAnswer(score)
  \/ SubmitAnswerFallback
  \/ SubmitAnswerThrows
  \/ NextQuestion
  \/ NewTraining
  \/ RemountTrainer
  \/ \E tg \in NewTags : AwaySaveNewQuestion(tg)
  \/ \E q \in QIds, tg \in NewTags : AwaySaveEditedQuestion(q, tg)
  \/ \E q \in QIds : AwayDeleteQuestion(q)
  \/ \E id \in CatIds : AwayDeleteCategory(id)
  \/ \E q \in QIds \cup {BogusQId} : AwayToolDeleteQuestion(q)
  \/ \E id \in CatIds \cup {BogusId} : AwayToolDeleteCategory(id)

\* one category and one fresh question; the log is empty
SpecLog == InitRun /\ [][NextLog]_vars

\* ------------------------------------- the category tree across page loads
\* all orders of the ids of S
Orders(S) ==
  {f \in [1..Cardinality(S) -> S] : \A x \in S : \E i \in 1..Cardinality(S) : f[i] = x}

\* IDBObjectStore.getAll(): the records in ascending key order; order lists
\* the ids in the ascending order of their uuid strings
GetAll(table, order) ==
  LET Test(id) == \E r \in table : r.id = id
      present == SelectSeq(order, Test)
  IN  [i \in 1..Len(present) |-> CHOOSE r \in table : r.id = present[i]]

\* the page loaded again: the store and every view are created anew and the
\* first view mounted calls loadData()
LoadData ==
  /\ categories' = GetAll(dbCategories, uuidOrder.cat)
  /\ questions' = GetAll(dbQuestions, uuidOrder.q)
  /\ mode' = "setup"
  /\ selectedCategories' = {} /\ selectedTags' = {}
  /\ sessionQuestions' = <<>>
  /\ currentQuestionIndex' = 0
  /\ currentFeedback' = {}
  /\ sessionResults' = <<>>
  /\ UNCHANGED <<dbCategories, dbQuestions, nextCatId, nextQId, dbAttempts,
                 nextAttemptId, now, quality, historyVars>>

\* an empty database; the uuids that will be issued sort in any order
InitTree ==
  /\ InitStore /\ InitTrainer
  /\ \E co \in Orders(CatIds) : uuidOrder = [cat |-> co, q |-> IssueOrder.q]
  /\ InitViews

NextTree ==
  \/ \E p \in CatIds \cup {Null} : LibAddCategory(p)
  \/ \E id \in CatIds : LibDeleteCategory(id)
  \/ \E d \in CatIds, t \in CatIds : OnDropCategory(d, t)
  \/ \E d \in CatIds : OnDropToRoot(d)
  \/ \E p \in CatIds \cup {BogusId, Undefined} : ToolCreateCategory(p)
  \/ LoadData

SpecTree == InitTree /\ [][NextTree]_vars

\* ------------------------------------------------ the order of a session
\* the tags of the questions the session specifications start from
Tags == {"a", "b"}

\* the trainer opened on a database of one category and up to OrderQuestions
\* questions, due on any days and tagged or not
InitOrder ==
  /\ now = 1
  /\ LET cat == [id |-> 1, parentId |-> Null]
     IN  categories = <<cat>> /\ dbCategories = {cat}
  /\ \E n \in 1..OrderQuestions :
       \E due \in [1..n -> 1..MaxDue], tg \in [1..n -> {{}, {"a"}}] :
         /\ questions = [i \in 1..n |-> StoredQuestion(i, 1, tg[i], due[i])]
         /\ dbQuestions = {StoredQuestion(i, 1, tg[i], due[i]) : i \in 1..n}
         /\ nextQId = n + 1
  /\ dbAttempts = {}
  /\ nextCatId = 2 /\ nextAttemptId = 1
  /\ InitTrainer
  /\ uuidOrder = IssueOrder
  /\ InitViews

NextOrder ==
  \/ \E id \in CatIds : ToggleCategory(id)
  \/ \E tag \in Tags : ToggleTag(tag)
  \/ StartSession
  \/ RemountTrainer

SpecOrder == InitOrder /\ [][NextOrder]_vars

\* ----------------------------------------------- the filter of a session
\* the trainer opened on a database of FilterCats categories, created one
\* after the other at the root or under an earlier one, each holding one
\* question with any tags
InitFilter ==
  /\ now = 1
  /\ \E parent \in [1..FilterCats -> 0..FilterCats], tg \in [1..FilterCats -> SUBSET Tags] :
       /\ \A i \in 1..FilterCats : parent[i] < i
       /\ categories = [i \in 1..FilterCats |-> [id |-> i, parentId |-> parent[i]]]
       /\ dbCategories = {[id |-> i, parentId |-> parent[i]] : i \in 1..FilterCats}
       /\ questions = [i \in 1..FilterCats |-> StoredQuestion(i, i, tg[i], 1)]
       /\ dbQuestions = {StoredQuestion(i, i, tg[i], 1) : i \in 1..FilterCats}
  /\ dbAttempts = {}
  /\ nextCatId = FilterCats + 1 /\ nextQId = FilterCats + 1 /\ nextAttemptId = 1
  /\ InitTrainer
  /\ uuidOrder = IssueOrder
  /\ InitViews

NextFilter ==
  \/ \E id \in 1..FilterCats : ToggleCategory(id)
  \/ \E tag \in Tags : ToggleTag(tag)
  \/ StartSession
  \/ RemountTrainer

SpecFilter == InitFilter /\ [][NextFilter]_vars

\* ============================================================== StatsView
\* attempts of the statistics specification's database
StatScores == {6, 7}
StatDurations == {90, 3540}

\* attempts.value.sort((a, b) => b.date - a.date): a stable sort, latest first
RECURSIVE InsertByDateDesc(_, _)
InsertByDateDesc(sorted, a) ==
  IF sorted = <<>> THEN <<a>>
  ELSE IF Head(sorted).date >= a.date
       THEN <<Head(sorted)>> \o InsertByDateDesc(Tail(sorted), a)
       ELSE <<a>> \o sorted

RECURSIVE SortByDateDesc(_)
SortByDateDesc(as) ==
  IF as = <<>> THEN <<>>
  ELSE InsertByDateDesc(SortByDateDesc(SubSeq(as, 1, Len(as) - 1)), as[Len(as)])

\* the ids of the attempts in the order getAll() returns their records
AttemptOrder == [i \in 1..(nextAttemptId - 1) |-> i]

\* onMounted: the store is loaded; attempts = getAllAttempts(), sorted
OnMountedStats ==
  /\ statsIsLoading
  /\ attempts' = SortByDateDesc(GetAll(dbAttempts, AttemptOrder))
  /\ statsIsLoading' = FALSE
  /\ UNCHANGED <<selectedPeriod, storeVars, dbAttempts, nextAttemptId, now, trainerVars, reps,
                 prevInterval, prevFactor, lastEval, storeFailed, uuidOrder,
                 expandVars, submitVars, chatVars>>

\* router navigation away from the stats view: its refs are gone, and are
\* created anew by the next visit
UnmountStats ==
  /\ ~statsIsLoading
  /\ attempts' = <<>>
  /\ statsIsLoading' = TRUE
  /\ selectedPeriod' = "30"
  /\ UNCHANGED <<storeVars, dbAttempts, nextAttemptId, now, trainerVars, reps,
                 prevInterval, prevFactor, lastEval, storeFailed, uuidOrder,
                 expandVars, submitVars, chatVars>>

RECURSIVE Sum(_)
Sum(ns) == IF ns = <<>> THEN 0 ELSE Head(ns) + Sum(Tail(ns))

\* a faulty variant of ToFixed1: toFixed(0), the mean rounded to an integer
ToFixed0(sum, n) == 10 * JsRound(sum, n)

\* Number.prototype.toFixed(1) of sum / n for sum >= 0, in tenths: the nearest
\* tenth, the upper one when the quotient lies exactly between two
ToFixed1(sum, n) == JsRound(10 * sum, n)

\* totalAttempts
TotalAttempts == Len(attempts)

\* averageScore, in tenths
AverageScore ==
  IF TotalAttempts = 0 THEN 0
  ELSE ToFixed1(Sum([i \in 1..Len(attempts) |-> attempts[i].aiScore]), TotalAttempts)

\* successRate, in tenths of a percent
SuccessRate ==
  IF TotalAttempts = 0 THEN 0
  ELSE LET Test(a) == a.aiScore >= 7
           successfulAttempts == Len(SelectSeq(attempts, Test))
       IN  JsRound(1000 * successfulAttempts, TotalAttempts)

\* totalStudyTime: <<hours, minutes>> of the summed durations (seconds)
TotalStudyTime ==
  LET totalSeconds == Sum([i \in 1..Len(attempts) |-> JsOr(attempts[i].duration, 0)])
  IN  <<totalSeconds \div 3600, (totalSeconds % 3600) \div 60>>

\* a faulty variant of Grouped: the attempts of a question without a category
\* are dropped as well
GroupedWithCategory(atts, qs, cats) ==
  LET Test(a) == HasId(qs, a.questionId)
                 /\ HasId(cats, Find(qs, a.questionId).categoryId)
  IN  SelectSeq(atts, Test)

\* categoryStats, the forEach: the attempts that get past `if (!question) return`
Grouped(atts, qs, cats) ==
  LET Test(a) == HasId(qs, a.questionId)
  IN  SelectSeq(atts, Test)

\* categoryStats: the keys of statsByCategory in the order they were set
RECURSIVE MapKeys(_, _)
MapKeys(atts, qs) ==
  IF atts = <<>> THEN <<>>
  ELSE LET rest == MapKeys(SubSeq(atts, 1, Len(atts) - 1), qs)
           key == Find(qs, atts[Len(atts)].questionId).categoryId
       IN  IF key \in Range(rest) THEN rest ELSE Append(rest, key)

\* categoryStats: one entry of the map turned into a row; averageScore in tenths
StatsRow(categoryId, atts, qs, cats) ==
  LET Test(a) == Find(qs, a.questionId).categoryId = categoryId
      mine == SelectSeq(atts, Test)
      scores == [i \in 1..Len(mine) |-> mine[i].aiScore]
  IN  [categoryId |-> categoryId,
       categoryName |-> IF HasId(cats, categoryId) THEN "name" ELSE "no category",
       averageScore |-> ToFixed1(Sum(scores), Len(scores)),
       totalAttempts |-> Len(scores)]

\* .sort((a, b) => b.averageScore - a.averageScore): a stable sort
RECURSIVE InsertByAverageDesc(_, _)
InsertByAverageDesc(sorted, row) ==
  IF sorted = <<>> THEN <<row>>
  ELSE IF Head(sorted).averageScore >= row.averageScore
       THEN <<Head(sorted)>> \o InsertByAverageDesc(Tail(sorted), row)
       ELSE <<row>> \o sorted

RECURSIVE SortByAverageDesc(_)
SortByAverageDesc(rows) ==
  IF rows = <<>> THEN <<>>
  ELSE InsertByAverageDesc(SortByAverageDesc(SubSeq(rows, 1, Len(rows) - 1)),
                           rows[Len(rows)])

\* categoryStats
CategoryStats ==
  LET grouped == Grouped(attempts, questions, categories)
      keys == MapKeys(grouped, questions)
  IN  SortByAverageDesc([i \in 1..Len(keys) |->
                           StatsRow(keys[i], grouped, questions, categories)])

\* the library's removals, which run while the library is mounted
StatsAwayDeleteQuestion(qId) == StatsUnmounted /\ LibDeleteQuestion(qId)
StatsAwayDeleteCategory(id) == StatsUnmounted /\ LibDeleteCategory(id)

\* a database left by earlier sessions: two categories with a question each,
\* and up to StatAttempts attempts on them with their duration in seconds
InitStatsLog ==
  /\ now = 1
  /\ LET cat1 == [id |-> 1, parentId |-> Null]
         cat2 == [id |-> 2, parentId |-> Null]
         q1 == StoredQuestion(1, 1, {}, 1)
         q2 == StoredQuestion(2, 2, {}, 1)
     IN  /\ categories = <<cat1, cat2>> /\ dbCategories = {cat1, cat2}
         /\ questions = <<q1, q2>> /\ dbQuestions = {q1, q2}
  /\ \E n \in 0..StatAttempts :
       \E qid \in [1..n -> 1..2], sc \in [1..n -> StatScores],
          du \in [1..n -> StatDurations] :
         /\ dbAttempts = {[id |-> i, questionId |-> qid[i], date |-> now,
                           aiScore |-> sc[i], duration |-> du[i]] : i \in 1..n}
         /\ nextAttemptId = n + 1
  /\ nextCatId = 3 /\ nextQId = 3
  /\ InitTrainer
  /\ uuidOrder = IssueOrder
  /\ InitViews

NextStats ==
  \/ OnMountedStats
  \/ UnmountStats
  \/ \E q \in QIds : StatsAwayDeleteQuestion(q)
  \/ \E id \in CatIds : StatsAwayDeleteCategory(id)

SpecStats == InitStatsLog /\ [][NextStats]_vars

\* ------------------------------------------------- StatsView progressData
\* the period buttons: selectedPeriod = period.value
SelectPeriod(period) ==
  /\ ~statsIsLoading
  /\ selectedPeriod' = period
  /\ UNCHANGED <<attempts, statsIsLoading, storeVars, dbAttempts, nextAttemptId,
                 now, trainerVars, reps, prevInterval, prevFactor, lastEval,
                 storeFailed, uuidOrder, expandVars, submitVars, chatVars>>

\* selectedPeriod === 'all' ? 365 : parseInt(selectedPeriod)
DaysToShow == CASE selectedPeriod = "all" -> AllDays
                [] selectedPeriod = "7" -> 7
                [] selectedPeriod = "30" -> 30

\* days are counted from 1, the first of January of a year; years have
\* YearLength days (no leap year falls in the days modelled)
YearLength == 365
MonthLengths == <<31, 28, 31, 30, 31, 30, 31, 31, 30, 31, 30, 31>>

RECURSIVE DayAndMonth(_, _)
DayAndMonth(dayOfYear, month) ==
  IF dayOfYear <= MonthLengths[month] THEN <<dayOfYear, month>>
  ELSE DayAndMonth(dayOfYear - MonthLengths[month], month + 1)

\* new Date(date).toLocaleDateString('ru-RU', { day: '2-digit', month: '2-digit' }):
\* 'dd.mm', kept as <<dd, mm>>; the year is not part of the key
DateKey(date) == DayAndMonth(((date - 1) % YearLength) + 1, 1)

\* progressData: the keys of dailyData in the order they were set
RECURSIVE DayKeys(_)
DayKeys(atts) ==
  IF atts = <<>> THEN <<>>
  ELSE LET rest == DayKeys(SubSeq(atts, 1, Len(atts) - 1))
           key == DateKey(atts[Len(atts)].date)
       IN  IF key \in Range(rest) THEN rest ELSE Append(rest, key)

\* progressData: one entry of dailyData turned into a point
ProgressPoint(dateKey, atts) ==
  LET Test(a) == DateKey(a.date) = dateKey
      mine == SelectSeq(atts, Test)
      scores == [i \in 1..Len(mine) |-> mine[i].aiScore]
  IN  [date |-> dateKey,
       averageScore |-> ToFixed1(Sum(scores), Len(scores)),
       totalAttempts |-> Len(scores)]

\* the comparator of progressData's sort says "a is not after b": by the
\* month of the key, then by its day
KeyNotAfter(a, b) ==
  LET monthDiff == a.date[2] - b.date[2]
  IN  IF monthDiff # 0 THEN monthDiff <= 0 ELSE a.date[1] - b.date[1] <= 0

RECURSIVE InsertByKey(_, _)
InsertByKey(sorted, point) ==
  IF sorted = <<>> THEN <<point>>
  ELSE IF KeyNotAfter(Head(sorted), point)
       THEN <<Head(sorted)>> \o InsertByKey(Tail(sorted), point)
       ELSE <<point>> \o sorted

RECURSIVE SortByKey(_)
SortByKey(points) ==
  IF points = <<>> THEN <<>>
  ELSE InsertByKey(SortByKey(SubSeq(points, 1, Len(points) - 1)), points[Len(points)])

\* Array.prototype.slice(-n)
SliceLast(s, n) == IF Len(s) <= n THEN s ELSE SubSeq(s, Len(s) - n + 1, Len(s))

\* progressData
ProgressData ==
  LET startDate == now - DaysToShow
      Test(a) == a.date >= startDate
      filteredAttempts == SelectSeq(attempts, Test)
      keys == DayKeys(filteredAttempts)
  IN  SliceLast(SortByKey([i \in 1..Len(keys) |->
                             ProgressPoint(keys[i], filteredAttempts)]),
                MaxPoints)

\* how long before now the attempts of the progress specification were made
DaysAgo == {0, 1, 3, 6, 20, 40}

\* a database left by earlier sessions, opened early in January or in summer:
\* one category, one question and up to ProgressAttempts attempts on it
InitProgress ==
  /\ now \in {YearLength + 3, YearLength + 200}
  /\ LET cat == [id |-> 1, parentId |-> Null]
         q == StoredQuestion(1, 1, {}, 1)
     IN  /\ categories = <<cat>> /\ dbCategories = {cat}
         /\ questions = <<q>> /\ dbQuestions = {q}
  /\ \E n \in 0..ProgressAttempts :
       \E ago \in [1..n -> DaysAgo], sc \in [1..n -> StatScores] :
         /\ dbAttempts = {[id |-> i, questionId |-> 1, date |-> now - ago[i],
                           aiScore |-> sc[i], duration |-> 90] : i \in 1..n}
         /\ nextAttemptId = n + 1
  /\ nextCatId = 2 /\ nextQId = 2
  /\ InitTrainer
  /\ uuidOrder = IssueOrder
  /\ InitViews

NextProgress ==
  \/ OnMountedStats
  \/ UnmountStats
  \/ \E period \in {"7", "30", "all"} : SelectPeriod(period)

SpecProgress == InitProgress /\ [][NextProgress]_vars

\* ------------------------------- the scheduling fields under every handler
\* the library's moves, which run while the library is mounted in place of
\* the trainer
AwayOnDropQuestion(qId, targetId) == TrainerFresh /\ OnDropQuestion(qId, targetId)
AwayOnDropCategory(draggedId, targetId) == TrainerFresh /\ OnDropCategory(draggedId, targetId)
AwayOnDropToRoot(draggedId) == TrainerFresh /\ OnDropToRoot(draggedId)

\* two categories and a question of the first, left by earlier sessions
InitFrame ==
  /\ now = 1
  /\ LET cat1 == [id |-> 1, parentId |-> Null]
         cat2 == [id |-> 2, parentId |-> Null]
         q == StoredQuestion(1, 1, {}, 1)
     IN  /\ categories = <<cat1, cat2>> /\ dbCategories = {cat1, cat2}
         /\ questions = <<q>> /\ dbQuestions = {q}
  /\ dbAttempts = {}
  /\ nextCatId = 3 /\ nextQId = 2 /\ nextAttemptId = 1
  /\ InitTrainer
  /\ uuidOrder = IssueOrder
  /\ InitViews

NextFrame ==
  \/ StartSession
  \/ \E score \in LogScores : SubmitAnswer(score)
  \/ NextQuestion
  \/ NewTraining
  \/ RemountTrainer
  \/ \E q \in QIds, t \in CatIds : AwayOnDropQuestion(q, t)
  \/ \E q \in QIds \cup {BogusQId}, c \in CatIds \cup {BogusId, Undefined} :
        AwayToolUpdateQuestion(q, c)
  \/ \E q \in QIds, tg \in NewTags : AwaySaveEditedQuestion(q, tg)
  \/ \E d \in CatIds, t \in CatIds : AwayOnDropCategory(d, t)
  \/ \E d \in CatIds : AwayOnDropToRoot(d)
  \/ \E id \in CatIds : AwayDeleteCategory(id)

SpecFrame == InitFrame /\ [][NextFrame]_vars

\* ------------------------------------ startSession() run frame by frame
\* the frames the engine's call stack holds before it throws RangeError; a
\* forest of MaxCats categories needs at most MaxCats of them
MaxDepth == MaxCats + 1

\* const children = dataStore.categories.filter(c => c.parentId === parentId)
ChildrenOf(cats, parentId) ==
  LET Test(c) == c.parentId = parentId
      children == SelectSeq(cats, Test)
  IN  [i \in 1..Len(children) |-> children[i].id]

\* the frame of a call getDescendantIds(parentId)
Frame(parentId) == [parentId |-> parentId, todo |-> ChildrenOf(categories, parentId)]

othersIdle == <<storeVars, dbAttempts, nextAttemptId, now, trainerVars, reps,
                prevInterval, prevFactor, lastEval, storeFailed, uuidOrder, statsVars,
                submitVars, chatVars>>

\* startSession() is called from the setup screen and reaches
\* selectedCategories.forEach
BeginSession ==
  /\ mode = "setup"
  /\ startState # "running"
  /\ startState' = "running"
  /\ pending' = selectedCategories
  /\ callStack' = <<>>
  /\ expandedCategories' = {}
  /\ UNCHANGED othersIdle

\* selectedCategories.forEach, one selected id: expandedCategories.add(catId)
\* and the call getDescendantIds(catId)
ExpandSelected(catId) ==
  /\ startState = "running"
  /\ callStack = <<>>
  /\ catId \in pending
  /\ pending' = pending \ {catId}
  /\ expandedCategories' = expandedCategories \cup {catId} \cup Range(Frame(catId).todo)
  /\ callStack' = <<Frame(catId)>>
  /\ UNCHANGED <<startState, othersIdle>>

\* children.forEach, one child c: the call getDescendantIds(c.id), whose
\* children end up in expandedCategories; the engine throws RangeError when
\* its stack is full, and startSession ends with that exception
Descend ==
  /\ startState = "running"
  /\ callStack # <<>>
  /\ LET top == callStack[Len(callStack)]
     IN  /\ top.todo # <<>>
         /\ IF Len(callStack) < MaxDepth
            THEN /\ callStack' = Append([callStack EXCEPT ![Len(callStack)].todo = Tail(top.todo)],
                                        Frame(Head(top.todo)))
                 /\ expandedCategories' =
                      expandedCategories \cup Range(Frame(Head(top.todo)).todo)
                 /\ UNCHANGED <<startState, pending>>
            ELSE /\ startState' = "overflow"
                 /\ callStack' = <<>> /\ pending' = {} /\ expandedCategories' = {}
  /\ UNCHANGED othersIdle

\* children.forEach is through: getDescendantIds returns to its caller
Return ==
  /\ startState = "running"
  /\ callStack # <<>>
  /\ callStack[Len(callStack)].todo = <<>>
  /\ callStack' = SubSeq(callStack, 1, Len(callStack) - 1)
  /\ UNCHANGED <<startState, pending, expandedCategories, othersIdle>>

\* the filter callback of startSession, on the Set the expansion has filled
IsCandidateOf(q, expanded, selCats, selTags) ==
  /\ (selCats # {} => q.categoryId \in expanded)
  /\ ~(selTags # {} /\ q.tags \cap selTags = {})

\* the rest of startSession() once selectedCategories.forEach is through:
\* filter, sort, and the session if there is a candidate
BuildSession ==
  /\ startState = "running"
  /\ callStack = <<>> /\ pending = {}
  /\ LET Test(q) == IsCandidateOf(q, expandedCategories, selectedCategories, selectedTags)
         candidates == SortByDue(SelectSeq(questions, Test))
     IN  /\ sessionQuestions' = candidates
         /\ IF Len(candidates) = 0
            THEN UNCHANGED <<mode, currentQuestionIndex, sessionResults, currentFeedback>>
            ELSE /\ currentQuestionIndex' = 0
                 /\ sessionResults' = <<>>
                 /\ mode' = "training"
                 /\ currentFeedback' = {}
  /\ startState' = "returned"
  /\ expandedCategories' = {}
  /\ UNCHANGED <<pending, callStack, storeVars, dbAttempts, nextAttemptId, now,
                 selectedCategories, selectedTags, quality, reps, prevInterval,
                 prevFactor, lastEval, storeFailed, uuidOrder, statsVars, submitVars,
                 chatVars>>

\* what the user does between two calls of startSession
IdleToggleCategory(id) == startState # "running" /\ ToggleCategory(id)
IdleRemountTrainer == startState # "running" /\ RemountTrainer
IdleOnDropCategory(draggedId, targetId) ==
  startState # "running" /\ AwayOnDropCategory(draggedId, targetId)
IdleOnDropToRoot(draggedId) == startState # "running" /\ AwayOnDropToRoot(draggedId)

\* MaxCats categories at the root, and a question of the last one
InitExpand ==
  /\ now = 1
  /\ categories = [i \in CatIds |-> [id |-> i, parentId |-> Null]]
  /\ dbCategories = {[id |-> i, parentId |-> Null] : i \in CatIds}
  /\ LET q == StoredQuestion(1, MaxCats, {}, 1)
     IN  questions = <<q>> /\ dbQuestions = {q}
  /\ dbAttempts = {}
  /\ nextCatId = MaxCats + 1 /\ nextQId = 2 /\ nextAttemptId = 1
  /\ InitTrainer
  /\ uuidOrder = IssueOrder
  /\ InitViews

NextExpand ==
  \/ BeginSession
  \/ \E catId \in CatIds : ExpandSelected(catId)
  \/ Descend
  \/ Return
  \/ BuildSession
  \/ \E id \in CatIds : IdleToggleCategory(id)
  \/ IdleRemountTrainer
  \/ \E d \in CatIds, t \in CatIds : IdleOnDropCategory(d, t)
  \/ \E d \in CatIds : IdleOnDropToRoot(d)

\* a call of startSession, once begun, runs on: the engine takes every step
\* of the handler that it can
SpecExpand ==
  /\ InitExpand /\ [][NextExpand]_vars
  /\ WF_vars(\E catId \in CatIds : ExpandSelected(catId))
  /\ WF_vars(Descend) /\ WF_vars(Return) /\ WF_vars(BuildSession)

\* ------------------------------------ submitAnswer() run await by await
othersSubmit == <<categories, dbCategories, nextCatId, nextQId, now, reps,
                  prevInterval, prevFactor, storeFailed, uuidOrder, statsVars,
                  expandVars, chatVars>>

\* submitAnswer() from the resolved evaluateAnswer to `await
\* dbService.saveAttempt(attempt)`: the feedback is shown,
\* updateSpacedRepetition calls dataStore.updateQuestion without awaiting it,
\* and the attempt is handed to the database
SubmitEvaluated(score) ==
  /\ mode = "training"
  /\ currentFeedback = {}
  /\ currentQuestionIndex < Len(sessionQuestions)
  /\ pendingAttempt = {}
  /\ nextAttemptId <= MaxAttempts
  /\ LET question == sessionQuestions[currentQuestionIndex + 1]
         q == QualityOf(score)
         attempt == [id |-> nextAttemptId, questionId |-> question.id,
                     date |-> now, aiScore |-> score]
     IN  /\ currentFeedback' = {[score |-> score]}
         /\ quality' = q
         /\ pendingUpdate' = pendingUpdate \cup {Rescheduled(question, q)}
         /\ pendingAttempt' = {attempt}
         /\ lastSubmit' = {[rescheduled |-> Rescheduled(question, q), attempt |-> attempt]}
         /\ nextAttemptId' = nextAttemptId + 1
  /\ lastEval' = "scored"
  /\ UNCHANGED <<questions, dbQuestions, dbAttempts, mode, selectedCategories,
                 selectedTags, sessionQuestions, currentQuestionIndex,
                 sessionResults, othersSubmit>>

\* dataStore.updateQuestion(question) past its await: dbService.saveQuestion
\* fulfilled (ok) and memory is written, or it rejected and nobody catches it
SaveQuestionSettles(ok) ==
  /\ \E question \in pendingUpdate :
       /\ pendingUpdate' = pendingUpdate \ {question}
       /\ dbQuestions' = IF ok THEN DbPut(dbQuestions, question) ELSE dbQuestions
       /\ questions' = AfterAwait(ok, questions, UpdateQuestionMem(questions, question))
  /\ UNCHANGED <<dbAttempts, nextAttemptId, trainerVars, lastEval, pendingAttempt,
                 lastSubmit, othersSubmit>>

\* submitAnswer() past `await dbService.saveAttempt(attempt)`: fulfilled (ok)
\* and the attempt joins sessionResults, or rejected and the catch block
\* reports 'Ошибка проверки ответа'
SaveAttemptSettles(ok) ==
  /\ pendingAttempt # {}
  /\ pendingAttempt' = {}
  /\ LET attempt == CHOOSE a \in pendingAttempt : TRUE
     IN  /\ dbAttempts' = IF ok THEN DbPut(dbAttempts, attempt) ELSE dbAttempts
         /\ sessionResults' = AfterAwait(ok, sessionResults, Append(sessionResults, attempt))
  /\ UNCHANGED <<questions, dbQuestions, nextAttemptId, mode, selectedCategories,
                 selectedTags, sessionQuestions, currentQuestionIndex,
                 currentFeedback, quality, lastEval, pendingUpdate, lastSubmit,
                 othersSubmit>>

\* one category and one question left by earlier sessions; nothing in flight
InitSubmit ==
  /\ now = 1
  /\ LET cat == [id |-> 1, parentId |-> Null]
         q == StoredQuestion(1, 1, {}, 1)
     IN  /\ categories = <<cat>> /\ dbCategories = {cat}
         /\ questions = <<q>> /\ dbQuestions = {q}
  /\ dbAttempts = {}
  /\ nextCatId = 2 /\ nextQId = 2 /\ nextAttemptId = 1
  /\ InitTrainer
  /\ uuidOrder = IssueOrder
  /\ InitViews

NextSubmit ==
  \/ StartSession
  \/ \E score \in LogScores : SubmitEvaluated(score)
  \/ \E ok \in BOOLEAN : SaveQuestionSettles(ok)
  \/ \E ok \in BOOLEAN : SaveAttemptSettles(ok)
  \/ NextQuestion
  \/ NewTraining

SpecSubmit == InitSubmit /\ [][NextSubmit]_vars

\* ------------------------------------- ChatView: a generation step by step
\* One step is one browser task: a click, a fetch that settles, or one awaited
\* tool call that completes, each with the promise reactions that follow it.
\* MaxRequests bounds the sendMessage calls of a run, MaxBatch the tool calls
\* of one reply.
MaxRequests == 3
MaxBatch == 2
RequestIds == 1..MaxRequests
\* the tools a reply asks for here: one that writes and one that only reads
ToolNames == {"create_category", "get_categories"}

\* everything a chat step leaves alone besides the store
othersChat == <<dbAttempts, nextAttemptId, now, trainerVars, reps, prevInterval,
                prevFactor, lastEval, storeFailed, uuidOrder, statsVars,
                expandVars, submitVars>>

\* the sendMessage call id, if it has not returned
RequestOf(id) == {r \in requests : r.id = id}

\* sendMessage's finally block, run by the call r: it looks at the refs as
\* they are now; the refs of a view that was unmounted are no longer shown
SendMessageFinally(r) ==
  IF ~r.orphan /\ abortController # Null
  THEN isLoading' = FALSE /\ abortController' = Null
  ELSE UNCHANGED <<isLoading, abortController>>

\* sendMessage up to its await of aiService.chat, whose fetch is now pending
SendMessage ==
  /\ ~isLoading
  /\ nextRequestId <= MaxRequests
  /\ isLoading' = TRUE
  /\ abortController' = nextRequestId
  /\ requests' = requests \cup {[id |-> nextRequestId, aborted |-> FALSE,
                                 orphan |-> FALSE, phase |-> "fetching",
                                 left |-> 0]}
  /\ nextRequestId' = nextRequestId + 1
  /\ UNCHANGED <<storeVars, othersChat>>

\* abort() on the controller of call r: a pending fetch rejects at once and
\* sendMessage returns through its catch and finally, which find the refs as
\* the aborting handler left them; a call that awaits a tool call goes on
Aborted(held, orphaned) ==
  {[r EXCEPT !.aborted = r.aborted \/ r.id = held,
             !.orphan = r.orphan \/ orphaned] :
     r \in {x \in requests : ~(x.id = held /\ x.phase = "fetching")}}

\* stopGeneration
StopGeneration ==
  /\ abortController # Null
  /\ requests' = Aborted(abortController, FALSE)
  /\ abortController' = Null
  /\ isLoading' = FALSE
  /\ UNCHANGED <<nextRequestId, storeVars, othersChat>>

\* router navigation away from the chat and back: onUnmounted aborts the
\* controller the ref holds, and the next mount has refs of its own
RemountChat ==
  /\ requests' = Aborted(abortController, TRUE)
  /\ abortController' = Null
  /\ isLoading' = FALSE
  /\ UNCHANGED <<nextRequestId, storeVars, othersChat>>

\* AIService.chat: the fetch of call id answers with n tool calls; the loop
\* awaits the first
FetchReturnsToolCalls(id, n) ==
  /\ \E r \in RequestOf(id) :
       /\ r.phase = "fetching" /\ ~r.aborted
       /\ requests' = (requests \ {r}) \cup
                        {[r EXCEPT !.phase = "tools", !.left = n]}
  /\ UNCHANGED <<isLoading, abortController, nextRequestId, storeVars,
                 othersChat>>

\* AIService.chat returns a message without tool calls, or throws (no key, a
\* response that is not ok, a network error): sendMessage pushes the reply or
\* the error and runs its finally
SendMessageSettles(id) ==
  /\ \E r \in RequestOf(id) :
       /\ r.phase = "fetching" /\ ~r.aborted
       /\ requests' = requests \ {r}
       /\ SendMessageFinally(r)
  /\ UNCHANGED <<nextRequestId, storeVars, othersChat>>

\* AIService.chat: one awaited onToolCall of the batch of call id completes.
\* After the last, chat calls itself with the same signal: the fetch of an
\* aborted signal rejects at once, any other is pending
ChatToolCall(id, name) ==
  /\ \E r \in RequestOf(id) :
       /\ r.phase = "tools"
       /\ IF r.left > 1
          THEN /\ requests' = (requests \ {r}) \cup
                                {[r EXCEPT !.left = r.left - 1]}
               /\ UNCHANGED <<isLoading, abortController>>
          ELSE IF r.aborted
          THEN /\ requests' = requests \ {r}
               /\ SendMessageFinally(r)
          ELSE /\ requests' = (requests \ {r}) \cup
                                {[r EXCEPT !.phase = "fetching", !.left = 0]}
               /\ UNCHANGED <<isLoading, abortController>>
  /\ IF name = "create_category"
     THEN /\ nextCatId <= MaxCats
          /\ StoreAddCategory([id |-> nextCatId, parentId |-> Null])
          /\ nextCatId' = nextCatId + 1
          /\ UNCHANGED <<questions, dbQuestions, nextQId>>
     ELSE UNCHANGED storeVars
  /\ UNCHANGED <<nextRequestId, othersChat>>

NextChat ==
  \/ SendMessage
  \/ StopGeneration
  \/ RemountChat
  \/ \E id \in RequestIds, n \in 1..MaxBatch : FetchReturnsToolCalls(id, n)
  \/ \E id \in RequestIds : SendMessageSettles(id)
  \/ \E id \in RequestIds, name \in ToolNames : ChatToolCall(id, name)

SpecChat == Init /\ [][NextChat]_vars

\* ================================================================ claims
\* ---- the content graph (Spec)

\* C1: no step moves a category under itself or under one of its own
\* descendants: such a reparenting, by onDrop, by the update_category tool or
\* by updateCategory, is rejected and leaves every parentId as it was.
C1_CyclicMoveRejected ==
  [][\A i \in 1..Len(categories) : \A j \in 1..Len(categories') :
       (/\ categories'[j].id = categories[i].id
        /\ categories'[j].parentId # categories[i].parentId)
       => categories'[j].parentId \notin
            ({categories[i].id} \cup Descendants(categories, categories[i].id))]_vars

\* C2: the parent relation is acyclic: no category is its own descendant.
C2_Acyclic ==
  \A c \in Range(categories) : c.id \notin Descendants(categories, c.id)

\* C3: every question's categoryId is the id of a category that exists.
C3_CategoryIdLive ==
  \A q \in Range(questions) : HasId(categories, q.categoryId)

\* C4: after a step that removes category id, no remaining category has
\* parentId equal to id.
C4_NoOrphanAfterRemove ==
  [][\A id \in IdsOf(categories) \ IdsOf(categories') :
       \A c \in Range(categories') : c.parentId # id]_vars

\* ---- the scheduler under submitAnswer (SpecSched)
\* a step of submitAnswer that got its evaluation: the feedback appears
Answered == currentFeedback = {} /\ currentFeedback' # {}
\* the score of that evaluation
AnsweredScore == (CHOOSE fb \in currentFeedback' : TRUE).score
\* the answered question before and after the step
AnsweredId == sessionQuestions[currentQuestionIndex + 1].id
Before == Find(questions, AnsweredId)
After == Find(questions', AnsweredId)
\* the session's copy of the current question: its fields before the answer
Snapshot == sessionQuestions[currentQuestionIndex + 1]
Stored == Find(questions, Snapshot.id)
HasFeedback == mode = "training" /\ currentFeedback # {}
Max(a, b) == IF a >= b THEN a ELSE b

\* C5 as stated: every score in 0..5 resets the interval to 1.
C5_ScoreBelowSixResets ==
  [][(Answered /\ AnsweredScore \in 0..5) => After.interval = 1]_vars

\* C5 amended: every score below 5 (0..4, whatever the prior interval and
\* factor) resets the interval to exactly 1.
C5_ScoreBelowFiveResets ==
  [][(Answered /\ AnsweredScore < 5) => After.interval = 1]_vars

C5_Witness ==
  /\ HasFeedback
  /\ \E fb \in currentFeedback : fb.score = 4
  /\ Snapshot.interval = 2 /\ Stored.interval = 1

\* C6: the quality the scheduler ran with is round(score / 2) clamped into
\* 0..5, for every score the evaluator returned.
C6_QualityClamped ==
  \A fb \in currentFeedback :
    /\ quality \in 0..5
    /\ quality = Max(0, IF JsRound(fb.score, 2) > 5 THEN 5 ELSE JsRound(fb.score, 2))

\* C7: with quality >= 3 the new interval is 1 from 0, 6 from 1, and otherwise
\* round(prior interval x prior factor), the factor being the one before
\* this step's factor update.
C7_IntervalRule ==
  [][(Answered /\ quality' >= 3) =>
       After.interval =
         CASE Before.interval = 0 -> 1
           [] Before.interval = 1 -> 6
           [] OTHER -> (2 * Before.interval * Before.repetitionFactor + 100) \div 200]_vars

C7_Witness ==
  /\ HasFeedback /\ quality = 5
  /\ Snapshot.interval = 2 /\ Snapshot.repetitionFactor = 250
  /\ Stored.interval = 5 /\ Stored.repetitionFactor = 260

\* C8: with quality q >= 3 the new factor is
\* max(1.3, factor + 0.1 - (5 - q) * (0.08 + (5 - q) * 0.02)):
\* +0.10 for q = 5, +0.00 for q = 4, -0.14 for q = 3, never below 1.3.
C8_FactorRule ==
  [][(Answered /\ quality' >= 3) =>
       /\ After.repetitionFactor =
            Max(130, Before.repetitionFactor + 10
                       - (5 - quality') * (8 + (5 - quality') * 2))
       /\ quality' = 5 => After.repetitionFactor = Before.repetitionFactor + 10
       /\ quality' = 4 => After.repetitionFactor = Before.repetitionFactor
       /\ quality' = 3 => After.repetitionFactor = Max(130, Before.repetitionFactor - 14)
       /\ After.repetitionFactor >= 130]_vars

C8_Witness ==
  /\ HasFeedback /\ quality = 3
  /\ Snapshot.repetitionFactor = 130 /\ Stored.repetitionFactor = 130

\* C9: with quality < 3 the interval becomes 1 and repetitionFactor stays
\* exactly as it was.
C9_FailedAnswerFrame ==
  [][(Answered /\ quality' < 3) =>
       /\ After.interval = 1
       /\ After.repetitionFactor = Before.repetitionFactor]_vars

C9_Witness ==
  /\ HasFeedback /\ quality = 2
  /\ Snapshot.interval = 2 /\ Stored.interval = 1
  /\ Stored.repetitionFactor = 250

\* ---- a run of the scheduler from a fresh question (SpecRun)
TheQuestion == Find(questions, 1)

\* C10: from a fresh question (interval 0, factor 2.5), scheduling with
\* quality >= 3 gives the intervals 1, 6, round(6 x factor), and then
\* round(interval x factor) at every later step; a step of quality 5 never
\* lowers the factor, a step of quality 3 never raises it, and the factor is
\* never below 1.3.
C10_FreshRun ==
  /\ reps = 0 => TheQuestion.interval = 0 /\ TheQuestion.repetitionFactor = 250
  /\ reps = 1 => TheQuestion.interval = 1
  /\ reps = 2 => TheQuestion.interval = 6
  /\ reps = 3 => prevInterval = 6
  /\ reps >= 3 =>
       /\ 100 * (2 * TheQuestion.interval - 1) <= 2 * prevInterval * prevFactor
       /\ 2 * prevInterval * prevFactor < 100 * (2 * TheQuestion.interval + 1)
  /\ (reps >= 1 /\ quality = 5) => TheQuestion.repetitionFactor >= prevFactor
  /\ (reps >= 1 /\ quality = 3) => TheQuestion.repetitionFactor <= prevFactor
  /\ TheQuestion.repetitionFactor >= 130

C10_Witness ==
  /\ reps >= 3
  /\ TheQuestion.repetitionFactor = 130
  /\ prevFactor > 130

\* ---- the trainer with every outcome of the evaluator (SpecEval)

\* C11: every stored question, in memory and in the database, has
\* interval >= 0 and repetitionFactor >= 1.3.
C11_ScheduleFieldsInRange ==
  \A q \in Range(questions) \cup dbQuestions :
    /\ q.interval # NaN /\ q.interval >= 0
    /\ q.repetitionFactor # NaN /\ q.repetitionFactor >= 130

\* a step of submitAnswer whose evaluation failed: evaluateAnswer rejected, or
\* it fell back on its parse-error result
FailedEvaluation ==
  /\ mode = "training" /\ currentFeedback = {}
  /\ mode' = "training"
  /\ lastEval' \in {"fallback", "thrown"}

\* C12: a submitAnswer step whose evaluation failed (network error, error
\* response, unparseable reply) leaves the questions, in memory and in the
\* database, and the attempt log as they were.
C12_FailedEvaluationFrame ==
  [][FailedEvaluation =>
       /\ questions' = questions
       /\ dbQuestions' = dbQuestions
       /\ dbAttempts' = dbAttempts]_vars

\* C20: every attempt in the log has aiScore within 0..10.
C20_AiScoreInRange ==
  \A a \in dbAttempts : a.aiScore # NaN /\ a.aiScore \in 0..ScoreMax

\* ---- the order of a session (SpecOrder)
\* a step of startSession that opens a session
SessionStarted == mode = "setup" /\ mode' = "training"

\* C13: with no category and no tag selected, the session started holds
\* every question of the store exactly once and nothing else, whatever their
\* number, in ascending nextReviewDate, questions of equal nextReviewDate in
\* their store order.
C13_UnfilteredSession ==
  [][(SessionStarted /\ selectedCategories = {} /\ selectedTags = {}) =>
       /\ Len(sessionQuestions') = Len(questions)
       /\ \A i \in 1..Len(questions) :
            Cardinality({j \in 1..Len(sessionQuestions') :
                           sessionQuestions'[j] = questions[i]}) = 1
       /\ \A j, k \in 1..Len(sessionQuestions') :
            j < k =>
              /\ sessionQuestions'[j].nextReviewDate <= sessionQuestions'[k].nextReviewDate
              /\ sessionQuestions'[j].nextReviewDate = sessionQuestions'[k].nextReviewDate
                   => FindIndex(questions, sessionQuestions'[j].id)
                        < FindIndex(questions, sessionQuestions'[k].id)]_vars

\* a session of three questions, two of them due the same day, that is not
\* in store order, with a tagged and an untagged question
C13_Witness ==
  /\ mode = "training"
  /\ selectedCategories = {} /\ selectedTags = {}
  /\ Len(sessionQuestions) = 3 /\ Len(questions) = 3
  /\ sessionQuestions # questions
  /\ sessionQuestions[2].nextReviewDate = sessionQuestions[3].nextReviewDate
  /\ sessionQuestions[1].nextReviewDate < sessionQuestions[2].nextReviewDate
  /\ sessionQuestions[1].tags # sessionQuestions[2].tags

\* ---- the filter of a session (SpecFilter)
InSession(q) == \E j \in 1..Len(sessionQuestions') : sessionQuestions'[j] = q
\* the selected categories and all below them, at any depth
SelectedClosure == DownClosure(categories, selectedCategories)

\* C14: with a non-empty category selection S, the session started holds a
\* question if and only if it passes the tag filter and its categoryId is in
\* S or below a member of S at any depth; it holds nothing else.
C14_CategoryClosureFilter ==
  [][(SessionStarted /\ selectedCategories # {}) =>
       /\ \A q \in Range(questions) :
            InSession(q) <=>
              /\ (selectedTags = {} \/ q.tags \cap selectedTags # {})
              /\ q.categoryId \in SelectedClosure
       /\ Range(sessionQuestions') \subseteq Range(questions)]_vars

\* category 1 selected with 2 under 1 and 3 under 2, and tag a selected: the
\* session holds the question of category 3 and leaves out one of the
\* closure that lacks the tag
C14_Witness ==
  /\ mode = "training"
  /\ selectedCategories = {1} /\ selectedTags = {"a"}
  /\ Find(categories, 2).parentId = 1 /\ Find(categories, 3).parentId = 2
  /\ \E j \in 1..Len(sessionQuestions) : sessionQuestions[j].categoryId = 3
  /\ ~\E j \in 1..Len(sessionQuestions) : sessionQuestions[j].categoryId = 2

\* C15: with a non-empty tag selection T the session started holds exactly
\* the questions that have a tag in T and pass the category filter; with an
\* empty T it holds exactly those that pass the category filter, tagged or
\* not.
C15_TagFilter ==
  [][SessionStarted =>
       \A q \in Range(questions) :
         LET catOk == selectedCategories = {} \/ q.categoryId \in SelectedClosure
         IN  IF selectedTags # {}
             THEN InSession(q) <=> ((\E t \in q.tags : t \in selectedTags) /\ catOk)
             ELSE InSession(q) <=> catOk]_vars

\* tags a and b selected and category 2: the session holds a question tagged
\* only b, and leaves out an untagged one of category 2's closure and a
\* tagged one outside it
C15_Witness ==
  /\ mode = "training"
  /\ selectedTags = {"a", "b"} /\ selectedCategories = {2}
  /\ \E j \in 1..Len(sessionQuestions) : sessionQuestions[j].tags = {"b"}
  /\ \E q \in Range(questions) :
       /\ q.tags = {} /\ q.categoryId \in DownClosure(categories, {2})
       /\ q \notin Range(sessionQuestions)
  /\ \E q \in Range(questions) :
       /\ q.tags # {} /\ q.categoryId \notin DownClosure(categories, {2})
       /\ q \notin Range(sessionQuestions)

\* ---- the category tree across page loads (SpecTree)
\* the sequence of ids s lists them in the order the categories were
\* inserted, which is the order of their ids
InInsertionOrder(s) == \A i, j \in 1..Len(s) : i < j => s[i] < s[j]

\* C16: in the tree view the roots are exactly the categories whose parentId
\* is null or names no existing category, every other category is among the
\* children of its parent, and the roots and every node's children are
\* listed in the order the categories were inserted.
C16_TreeView ==
  /\ \A c \in Range(categories) :
       IF c.parentId = Null \/ ~HasId(categories, c.parentId)
       THEN c.id \in Range(TreeRoots(categories))
       ELSE /\ c.id \notin Range(TreeRoots(categories))
            /\ c.id \in Range(TreeChildren(categories, c.parentId))
  /\ InInsertionOrder(TreeRoots(categories))
  /\ \A c \in Range(categories) : InInsertionOrder(TreeChildren(categories, c.id))

\* ---- the store's six functions (SpecApi)

\* C17: a store call whose persistence write or delete failed leaves the
\* in-memory categories and questions exactly as they were.
C17_FailedWriteFrame ==
  [][storeFailed' => (categories' = categories /\ questions' = questions)]_vars

\* a call has failed while memory held a category and a question
C17_Witness ==
  /\ storeFailed
  /\ categories # <<>> /\ questions # <<>>
  /\ Range(categories) = dbCategories /\ Range(questions) = dbQuestions

\* C18: memory holds exactly the records of persistence, each id once: the
\* two collections agree as sets of records and no id is twice in an array.
C18_MemoryMirrorsPersistence ==
  /\ Range(categories) = dbCategories
  /\ Range(questions) = dbQuestions
  /\ \A i, j \in 1..Len(categories) : categories[i].id = categories[j].id => i = j
  /\ \A i, j \in 1..Len(questions) : questions[i].id = questions[j].id => i = j

\* ---- the attempt log (SpecLog)

\* C19: every step keeps every recorded attempt in the log with all its
\* fields, also the steps that remove its question or that question's
\* category.
C19_AttemptsImmutable ==
  [][\A a \in dbAttempts : a \in dbAttempts']_vars

\* two attempts are in the log, and their question and its category are gone
C19_Witness ==
  /\ Cardinality(dbAttempts) >= 2
  /\ \A a \in dbAttempts :
       /\ ~HasId(questions, a.questionId)
       /\ ~\E q \in dbQuestions : q.id = a.questionId
  /\ categories = <<>> /\ dbCategories = {}

\* ---- the statistics (SpecStats)
\* the stats view is mounted and shows its numbers
StatsShown == ~statsIsLoading
\* the question of a logged attempt is still in the store
QuestionLive(a) == HasId(questions, a.questionId)
\* ... and so is the category of that question
CategoryLive(a) ==
  QuestionLive(a) /\ HasId(categories, Find(questions, a.questionId).categoryId)
RowCategory(a) == Find(questions, a.questionId).categoryId
RowIds == {CategoryStats[i].categoryId : i \in 1..Len(CategoryStats)}
Abs(n) == IF n < 0 THEN 0 - n ELSE n

RECURSIVE ScoreSum(_)
ScoreSum(S) ==
  IF S = {} THEN 0
  ELSE LET a == CHOOSE x \in S : TRUE IN a.aiScore + ScoreSum(S \ {a})

RECURSIVE DurationSum(_)
DurationSum(S) ==
  IF S = {} THEN 0
  ELSE LET a == CHOOSE x \in S : TRUE IN a.duration + DurationSum(S \ {a})

\* the four totals are taken over the whole log, whatever became of the
\* questions: the count, the mean to the nearest tenth, the share of scores
\* >= 7 to the nearest tenth of a percent, the summed durations in hours and
\* whole minutes
TotalsCountEveryAttempt ==
  /\ TotalAttempts = Cardinality(dbAttempts)
  /\ 2 * Abs(TotalAttempts * AverageScore - 10 * ScoreSum(dbAttempts)) <= TotalAttempts
  /\ 2 * Abs(TotalAttempts * SuccessRate
               - 1000 * Cardinality({a \in dbAttempts : a.aiScore >= 7}))
       <= TotalAttempts
  /\ LET t == 3600 * TotalStudyTime[1] + 60 * TotalStudyTime[2]
     IN  /\ TotalStudyTime[2] \in 0..59
         /\ t <= DurationSum(dbAttempts) /\ DurationSum(dbAttempts) < t + 60

RowCounts == Sum([i \in 1..Len(CategoryStats) |-> CategoryStats[i].totalAttempts])
RowProducts ==
  Sum([i \in 1..Len(CategoryStats) |->
         CategoryStats[i].totalAttempts * CategoryStats[i].averageScore])
LiveAttempts == {a \in dbAttempts : QuestionLive(a)}

\* C22 as stated: the sum over the rows of count x mean equals the sum of
\* aiScore over the attempts whose question exists, and the counts add up to
\* the number of those attempts.
C22_RowsReconcileExactly ==
  StatsShown =>
    /\ RowProducts = 10 * ScoreSum(LiveAttempts)
    /\ RowCounts = Cardinality(LiveAttempts)

\* C22 amended: the counts of the rows add up to the number of attempts whose
\* question exists, and each row's mean is the mean of its attempts' aiScore
\* rounded to one decimal, so count x mean differs from the sum of their
\* aiScore by at most 0.05 x count, and over all rows by at most 0.05 x the
\* number of those attempts.
C22_RowsReconcileRounded ==
  StatsShown =>
    /\ RowCounts = Cardinality(LiveAttempts)
    /\ \A i \in 1..Len(CategoryStats) :
         LET row == CategoryStats[i]
             mine == {a \in LiveAttempts : RowCategory(a) = row.categoryId}
         IN  2 * Abs(row.totalAttempts * row.averageScore - 10 * ScoreSum(mine))
               <= row.totalAttempts
    /\ 2 * Abs(RowProducts - 10 * ScoreSum(LiveAttempts)) <= Cardinality(LiveAttempts)

\* a row of three attempts scored 6, 6 and 7: its mean is shown as 6.3
C22_Witness ==
  /\ StatsShown
  /\ \E i \in 1..Len(CategoryStats) :
       /\ CategoryStats[i].totalAttempts = 3
       /\ CategoryStats[i].averageScore = 63

\* ---- the daily progress (SpecProgress)
\* the calendar days, inside the trailing window, that have an attempt
WindowDays == {a.date : a \in {x \in dbAttempts : x.date >= now - DaysToShow}}
\* the n-th of the days S, counted from the earliest
RECURSIVE NthDay(_, _)
NthDay(S, n) ==
  LET first == CHOOSE d \in S : \A e \in S : d <= e
  IN  IF n = 1 THEN first ELSE NthDay(S \ {first}, n - 1)
\* how many of the days S are shown, and how many of the earliest are not
ShownDays == IF Cardinality(WindowDays) <= MaxPoints
             THEN Cardinality(WindowDays) ELSE MaxPoints
HiddenDays == Cardinality(WindowDays) - ShownDays

\* C23: dailyProgress holds one bucket per calendar day that has an attempt
\* inside the trailing window, in chronological order of the days, and of
\* more than 30 days the 30 most recent; also when the window spans a change
\* of year.
C23_DailyProgress ==
  StatsShown =>
    /\ Len(ProgressData) = ShownDays
    /\ \A i \in 1..Len(ProgressData) :
         /\ i <= ShownDays
         /\ ProgressData[i].date = DateKey(NthDay(WindowDays, HiddenDays + i))
         /\ ProgressData[i].totalAttempts =
              Cardinality({a \in dbAttempts : a.date = NthDay(WindowDays, HiddenDays + i)})

\* ---- the chat tools' answers to ids that do not exist (Spec)
\* the tool call returned an error object and changed nothing
Rejected(return) ==
  /\ return = "error"
  /\ categories' = categories /\ questions' = questions
  /\ dbCategories' = dbCategories /\ dbQuestions' = dbQuestions
NoCategory(id) == ~HasId(categories, id)
NoQuestion(id) == ~HasId(questions, id)

\* C24: a tool call that names a category or question id that does not exist
\* (update_category, delete_category, update_question, delete_question by
\* their id; create_question and update_question by categoryId;
\* create_category by parentId) returns an error object and leaves
\* categories and questions as they were.
C24_MissingIdRejected ==
  [][/\ \A id \in CatIds \cup {BogusId} :
          /\ \A parent \in CatIds \cup {BogusId, Null, Undefined} :
               (ToolUpdateCategory(id, parent) /\ NoCategory(id))
                 => Rejected(ReturnOfUpdateCategory(id, parent))
          /\ (ToolDeleteCategory(id) /\ NoCategory(id))
               => Rejected(ReturnOfDeleteCategory(id))
          /\ (ToolCreateCategory(id) /\ NoCategory(id))
               => Rejected(ReturnOfCreateCategory(id))
          /\ \A tg \in NewTags :
               (ToolCreateQuestion(id, tg) /\ NoCategory(id))
                 => Rejected(ReturnOfCreateQuestion(id))
          /\ \A q \in QIds :
               (ToolUpdateQuestion(q, id) /\ ~NoQuestion(q) /\ NoCategory(id))
                 => Rejected(ReturnOfUpdateQuestion(q, id))
     /\ \A q \in QIds \cup {BogusQId} :
          /\ \A c \in CatIds \cup {BogusId, Undefined} :
               (ToolUpdateQuestion(q, c) /\ NoQuestion(q))
                 => Rejected(ReturnOfUpdateQuestion(q, c))
          /\ (ToolDeleteQuestion(q) /\ NoQuestion(q))
               => Rejected(ReturnOfDeleteQuestion(q))]_vars

\* ---- the scheduling fields under every handler (SpecFrame)
ScheduleOf(q) == <<q.interval, q.repetitionFactor, q.nextReviewDate>>
\* the step is the editor's save of question id
EditorSaved(id) == \E tg \in NewTags : LibSaveEditedQuestion(id, tg)
\* the step is submitAnswer's scheduling update of question id
Scheduled(id) == Answered /\ AnsweredId = id

C26_StartSessionReturns == (startState = "running") ~> (startState = "returned")

\* ---- submitAnswer's two writes (SpecSubmit)
\* every write of the last submitAnswer has settled
SubmitSettled == lastSubmit # {} /\ pendingUpdate = {} /\ pendingAttempt = {}

\* C27: once submitAnswer and its writes have settled, either the question's
\* new schedule is in the database and in memory and its attempt is in the
\* log, or none of the three happened, whatever the order in which the writes
\* settle and whichever of them fail.
C27_AttemptAllOrNothing ==
  SubmitSettled =>
    \A s \in lastSubmit :
      \/ /\ s.rescheduled \in dbQuestions
         /\ s.rescheduled \in Range(questions)
         /\ s.attempt \in dbAttempts
      \/ /\ s.rescheduled \notin dbQuestions
         /\ s.rescheduled \notin Range(questions)
         /\ s.attempt \notin dbAttempts


\* ---- a chat generation and its abort (SpecChat)
\* the sendMessage call id was stopped or its view was unmounted
Stopped(id) == \E r \in requests : r.id = id /\ r.aborted
\* this step completes a tool call of the batch of call id
ToolCallStep(id) ==
  \E r \in requests :
    /\ r.id = id /\ r.phase = "tools"
    /\ ~\E r2 \in requests' : r2.id = id /\ r2.phase = "tools" /\ r2.left = r.left

\* C28: once a generation is stopped by stopGeneration or by the unmount of
\* the chat view, no tool call of it changes the categories or the questions,
\* also when the abort comes while a batch of tool calls is being processed.
C28_NoToolCallAfterStop ==
  [][\A id \in RequestIds :
       (Stopped(id) /\ ToolCallStep(id))
       => UNCHANGED <<categories, questions, dbCategories, dbQuestions>>]_vars

\* the generations in flight: the sendMessage calls that have not returned
\* and have not been stopped
LiveRequests == {r \in requests : ~r.aborted}

\* C29: at most one generation is in flight, isLoading is true exactly while
\* one is, and the abort controller is the one of that generation: the return
\* of an older, stopped call takes neither from a newer one.
C29_OneGeneration ==
  /\ Cardinality(LiveRequests) <= 1
  /\ isLoading <=> LiveRequests # {}
  /\ \A r \in LiveRequests : abortController = r.id


\* ---- the category tree view (Spec)
\* how often id is a node of the forest categoriesTree returns: as an entry of
\* roots, or of the children array of a node that hangs below a root
ForestCount(cats, id) ==
  Cardinality({i \in 1..Len(TreeRoots(cats)) : TreeRoots(cats)[i] = id})
  + Cardinality({pi \in TreeIds(cats) \X (1..Len(cats)) :
                   /\ pi[2] <= Len(TreeChildren(cats, pi[1]))
                   /\ TreeChildren(cats, pi[1])[pi[2]] = id})

\* C30: every stored category is in the forest of the category tree view
\* exactly once, as a root or below a root: none is missing, none is shown
\* twice.
C30_EveryCategoryOnce ==
  \A c \in Range(categories) : ForestCount(categories, c.id) = 1

=============================================================================
